---- MODULE Spec2Model ----
(***************************************************************************)
(* Migration-wave planning of gh-stats-visualizer                          *)
(* (src/src/utils/parseJson.ts, calculateMigrationWaves section).          *)
(*                                                                         *)
(* Six specifications share the variables below:                           *)
(*   SpecClassify  one call of classifyRepositorySize on inputs drawn      *)
(*                 from bounded sets;                                      *)
(*   Spec          generateMigrationWaves run step by step: the map over   *)
(*                 the repositories, the grouping by organization, the     *)
(*                 forEach over the groups, the pooled waves, the stats;   *)
(*   SpecChunk     one chunking loop of a wave builder, one iteration at   *)
(*                 a time, for any wave size a WaveConfig can carry;       *)
(*   SpecHistory   invocation after invocation, the caller keeping one     *)
(*                 earlier result to compare with;                         *)
(*   SpecForm      the MigrationWaveAnalyzer component (src/unnamed/       *)
(*                 part_001): threshold edits and changes of its           *)
(*                 repositories prop, each followed by its render;         *)
(*   SpecParse     calls of parseGhGithubStatsJson on parsed JSON values.   *)
(* Sizes are integers here (the code compares and subtracts them only).    *)
(***************************************************************************)
EXTENDS Integers, Sequences, FiniteSets, TLC

VARIABLES
    \* classifyRepositorySize, one call
    cpc, cSize, cMeta, cThresholds, cResult,
    \* generateMigrationWaves, one invocation at a time
    pc, repositories, thresholds, config,
    migrationRepos, mapIdx, metaCalls,
    orgGroups, groupIdx, orgIdx, allWaves, smallOrgRepos, builderCalls, stats,
    \* one chunking loop of createOrgWaves / createMixedOrgWaves
    lpc, lType, lRepos, lWaveSize, lI, lWaves,
    \* a result the caller kept from an earlier invocation
    earlier,
    \* the MigrationWaveAnalyzer component: its prop, its state, its memos
    uiMounted, uiRepositories, uiThresholds, uiHasError, uiResult,
    uiWavesByOrg, uiInvokedWith,
    \* one call of parseGhGithubStatsJson: position, argument, outcome
    jpc, jsonData, jResult

classifyVars == <<cpc, cSize, cMeta, cThresholds, cResult>>
planVars == <<pc, repositories, thresholds, config, migrationRepos, mapIdx,
              metaCalls, orgGroups, groupIdx, orgIdx, allWaves, smallOrgRepos,
              builderCalls, stats>>
chunkVars == <<lpc, lType, lRepos, lWaveSize, lI, lWaves>>
formVars == <<uiMounted, uiRepositories, uiThresholds, uiHasError, uiResult,
              uiWavesByOrg, uiInvokedWith>>
parseVars == <<jpc, jsonData, jResult>>
vars == <<classifyVars, planVars, chunkVars, earlier, formVars, parseVars>>

----------------------------------------------------------------------------
(* Bounds of the model *)

\* threshold fields range over -MaxThreshold..MaxThreshold in SpecClassify
MaxThreshold == 2
\* sizeMB ranges over 0..MaxSize in SpecClassify
MaxSize == 3
\* metadataRecords ranges over 0..MaxMeta in SpecClassify
MaxMeta == 3
\* longest repository list handed to generateMigrationWaves
MaxRepos == 3

----------------------------------------------------------------------------
(* Program constants *)

WAVE_SIZE_SMALL == 75
WAVE_SIZE_MEDIUM == 25
WAVE_SIZE_LARGE == 5
ORG_DEDICATED_WAVES_THRESHOLD == 50
MIXED_SMALL_ORGS == "MIXED_SMALL_ORGS"

DEFAULT_THRESHOLDS ==
    [smallSizeMB |-> 500, largeSizeMB |-> 2000,
     smallMetadata |-> 75000, largeMetadata |-> 200000]

\* the value standing for `throw new Error(...)`
ConfigError == "Error"

Categories == {"small", "medium", "large"}

----------------------------------------------------------------------------
(* classifyRepositorySize *)

\* the ordering the two guards of classifyRepositorySize enforce
ValidThresholds(T) ==
    /\ T.smallSizeMB < T.largeSizeMB
    /\ T.smallMetadata < T.largeMetadata

classifyNoMetadataCheck(sizeMB, metadataRecords, T) ==
    IF T.smallSizeMB >= T.largeSizeMB THEN ConfigError
    ELSE IF sizeMB < T.smallSizeMB /\ metadataRecords < T.smallMetadata
         THEN "small"
    ELSE IF sizeMB >= T.largeSizeMB \/ metadataRecords >= T.largeMetadata
         THEN "large"
    ELSE "medium"

classifyStrictGap(sizeMB, metadataRecords, T) ==
    IF T.smallSizeMB + 1 >= T.largeSizeMB THEN ConfigError
    ELSE IF T.smallMetadata >= T.largeMetadata THEN ConfigError
    ELSE IF sizeMB < T.smallSizeMB /\ metadataRecords < T.smallMetadata
         THEN "small"
    ELSE IF sizeMB >= T.largeSizeMB \/ metadataRecords >= T.largeMetadata
         THEN "large"
    ELSE "medium"

classifyLargeNeedsBoth(sizeMB, metadataRecords, T) ==
    IF T.smallSizeMB >= T.largeSizeMB THEN ConfigError
    ELSE IF T.smallMetadata >= T.largeMetadata THEN ConfigError
    ELSE IF sizeMB < T.smallSizeMB /\ metadataRecords < T.smallMetadata
         THEN "small"
    ELSE IF sizeMB >= T.largeSizeMB /\ metadataRecords >= T.largeMetadata
         THEN "large"
    ELSE "medium"

classifyInclusiveSmall(sizeMB, metadataRecords, T) ==
    IF T.smallSizeMB >= T.largeSizeMB THEN ConfigError
    ELSE IF T.smallMetadata >= T.largeMetadata THEN ConfigError
    ELSE IF sizeMB <= T.smallSizeMB /\ metadataRecords < T.smallMetadata
         THEN "small"
    ELSE IF sizeMB >= T.largeSizeMB \/ metadataRecords >= T.largeMetadata
         THEN "large"
    ELSE "medium"

\* 'small' when either measure is below its small threshold
classifySmallEither(sizeMB, metadataRecords, T) ==
    IF T.smallSizeMB >= T.largeSizeMB THEN ConfigError
    ELSE IF T.smallMetadata >= T.largeMetadata THEN ConfigError
    ELSE IF sizeMB < T.smallSizeMB \/ metadataRecords < T.smallMetadata
         THEN "small"
    ELSE IF sizeMB >= T.largeSizeMB \/ metadataRecords >= T.largeMetadata
         THEN "large"
    ELSE "medium"

classifyRepositorySize(sizeMB, metadataRecords, T) ==
    IF T.smallSizeMB >= T.largeSizeMB THEN ConfigError
    ELSE IF T.smallMetadata >= T.largeMetadata THEN ConfigError
    ELSE IF sizeMB < T.smallSizeMB /\ metadataRecords < T.smallMetadata
         THEN "small"
    ELSE IF sizeMB >= T.largeSizeMB \/ metadataRecords >= T.largeMetadata
         THEN "large"
    ELSE "medium"

ThresholdValues == (0 - MaxThreshold)..MaxThreshold

ThresholdSpace ==
    [smallSizeMB : ThresholdValues, largeSizeMB : ThresholdValues,
     smallMetadata : ThresholdValues, largeMetadata : ThresholdValues]

----------------------------------------------------------------------------
(* calculateMetadataRecords *)

\* the eleven counters, in the order of the `counts` array
MetadataFields ==
    <<"PR_Review_Count", "Issue_Count", "Pull_Request_Count",
      "PR_Review_Comment_Count", "Commit_Comment_Count",
      "Issue_Comment_Count", "Issue_Event_Count", "Release_Count",
      "Milestone_Count", "Tag_Count", "Discussion_Count">>

\* `repo.F || 0`: an absent field, and 0 itself, count as 0
OrZero(repo, f) == IF f \in DOMAIN repo THEN repo[f] ELSE 0

RECURSIVE SumCounts(_, _)
SumCounts(repo, k) ==
    IF k = 0 THEN 0
    ELSE SumCounts(repo, k - 1) + OrZero(repo, MetadataFields[k])

\* the sum with the branch count added
calculateMetadataRecordsWithBranches(repo) ==
    SumCounts(repo, Len(MetadataFields)) + OrZero(repo, "Branch_Count")

calculateMetadataRecords(repo) == SumCounts(repo, Len(MetadataFields))

----------------------------------------------------------------------------
(* getWaveSizeForCategory: `config?.waveSizeX ?? WAVE_SIZE_X`.             *)
(* A WaveConfig is a record holding the fields the caller supplied; the    *)
(* empty record stands for an omitted config.                              *)

\* a supplied waveSizeSmall taken for every category
getWaveSizeSharedOverride(category, cfg) ==
    IF "waveSizeSmall" \in DOMAIN cfg THEN cfg.waveSizeSmall
    ELSE CASE category = "small" -> WAVE_SIZE_SMALL
           [] category = "medium" -> WAVE_SIZE_MEDIUM
           [] category = "large" -> WAVE_SIZE_LARGE

getWaveSizeForCategory(category, cfg) ==
    CASE category = "small" ->
           IF "waveSizeSmall" \in DOMAIN cfg THEN cfg.waveSizeSmall
           ELSE WAVE_SIZE_SMALL
      [] category = "medium" ->
           IF "waveSizeMedium" \in DOMAIN cfg THEN cfg.waveSizeMedium
           ELSE WAVE_SIZE_MEDIUM
      [] category = "large" ->
           IF "waveSizeLarge" \in DOMAIN cfg THEN cfg.waveSizeLarge
           ELSE WAVE_SIZE_LARGE

----------------------------------------------------------------------------
(* Array helpers *)

SliceInclusive(s, from, to) ==
    LET hi == IF to + 1 < Len(s) THEN to + 1 ELSE Len(s)
    IN  IF from >= hi THEN <<>> ELSE SubSeq(s, from + 1, hi)

\* Array.prototype.slice(from, to): 0-based, `to` excluded, a negative index
\* counts from the end, both indices are clamped to 0..length
Slice(s, from, to) ==
    LET len == Len(s)
        Rel(k) == IF k < 0 THEN (IF len + k < 0 THEN 0 ELSE len + k)
                  ELSE (IF k > len THEN len ELSE k)
    IN  IF Rel(from) >= Rel(to) THEN <<>> ELSE SubSeq(s, Rel(from) + 1, Rel(to))

ChunkSkipping(list, i, waveSize) ==
    [k \in 1..((Len(list) - i + waveSize) \div (waveSize + 1)) |->
        Slice(list, i + (k - 1) * (waveSize + 1), i + (k - 1) * (waveSize + 1) + waveSize)]

\* for (let i = 0; i < list.length; i += waveSize) chunk = list.slice(i, i + waveSize)
\* with waveSize >= 1: the loop runs for i, i + waveSize, i + 2 * waveSize, ...
\* below list.length, and its k-th run takes the k-th slice
ChunkFrom(list, i, waveSize) ==
    [k \in 1..((Len(list) - i + waveSize - 1) \div waveSize) |->
        Slice(list, i + (k - 1) * waveSize, i + k * waveSize)]

categoryOrder(c) ==
    CASE c = "small" -> 0 [] c = "medium" -> 1 [] c = "large" -> 2

----------------------------------------------------------------------------
(* createOrgWaves *)

\* the comparator handed to sort: negative, zero or positive
compareOrg(a, b) ==
    IF categoryOrder(a.sizeCategory) # categoryOrder(b.sizeCategory)
    THEN categoryOrder(a.sizeCategory) - categoryOrder(b.sizeCategory)
    ELSE IF a.sizeMB # b.sizeMB THEN a.sizeMB - b.sizeMB
    ELSE a.metadataRecords - b.metadataRecords

\* `[...repos].sort(compare)`: Array.prototype.sort is stable, so an element
\* comes after those that compare lower and after the equal ones before it
sortOrg(repos) ==
    LET n == Len(repos)
        rank == [i \in 1..n |->
                    Cardinality({j \in 1..n :
                        \/ compareOrg(repos[j], repos[i]) < 0
                        \/ compareOrg(repos[j], repos[i]) = 0 /\ j <= i})]
    IN  [p \in 1..n |-> repos[CHOOSE i \in 1..n : rank[i] = p]]

filterAny(sorted, category) == sorted

filterCategory(sorted, category) ==
    SelectSeq(sorted, LAMBDA r : r.sizeCategory = category)

\* one of the three `if (xRepos.length > 0) { for ... waves.push(...) }` blocks
orgWavesFor(orgName, catRepos, category, firstNum, cfg) ==
    IF Len(catRepos) > 0
    THEN LET chunks == ChunkFrom(catRepos, 0, getWaveSizeForCategory(category, cfg))
         IN  [k \in 1..Len(chunks) |->
                 [org |-> orgName, waveNum |-> firstNum + k - 1,
                  repos |-> chunks[k], type |-> category]]
    ELSE <<>>

createOrgWaves(orgName, repos, cfg) ==
    LET sortedRepos == sortOrg(repos)
        smallRepos == filterCategory(sortedRepos, "small")
        mediumRepos == filterCategory(sortedRepos, "medium")
        largeRepos == filterCategory(sortedRepos, "large")
        w1 == orgWavesFor(orgName, smallRepos, "small", 1, cfg)
        w2 == orgWavesFor(orgName, mediumRepos, "medium", 1 + Len(w1), cfg)
        w3 == orgWavesFor(orgName, largeRepos, "large", 1 + Len(w1) + Len(w2), cfg)
    IN  w1 \o w2 \o w3

----------------------------------------------------------------------------
(* createMixedOrgWaves: the same text once more, with the literal tag *)

compareMixed(a, b) ==
    IF categoryOrder(a.sizeCategory) # categoryOrder(b.sizeCategory)
    THEN categoryOrder(a.sizeCategory) - categoryOrder(b.sizeCategory)
    ELSE IF a.sizeMB # b.sizeMB THEN a.sizeMB - b.sizeMB
    ELSE a.metadataRecords - b.metadataRecords

\* a sort that puts equal elements in reverse order
sortMixedUnstable(repos) ==
    LET n == Len(repos)
        rank == [i \in 1..n |->
                    Cardinality({j \in 1..n :
                        \/ compareMixed(repos[j], repos[i]) < 0
                        \/ compareMixed(repos[j], repos[i]) = 0 /\ j >= i})]
    IN  [p \in 1..n |-> repos[CHOOSE i \in 1..n : rank[i] = p]]

sortMixed(repos) ==
    LET n == Len(repos)
        rank == [i \in 1..n |->
                    Cardinality({j \in 1..n :
                        \/ compareMixed(repos[j], repos[i]) < 0
                        \/ compareMixed(repos[j], repos[i]) = 0 /\ j <= i})]
    IN  [p \in 1..n |-> repos[CHOOSE i \in 1..n : rank[i] = p]]

\* every block chunked by the small wave size
mixedWavesForSmallSize(catRepos, category, firstNum, cfg) ==
    IF Len(catRepos) > 0
    THEN LET chunks == ChunkFrom(catRepos, 0, getWaveSizeForCategory("small", cfg))
         IN  [k \in 1..Len(chunks) |->
                 [org |-> MIXED_SMALL_ORGS, waveNum |-> firstNum + k - 1,
                  repos |-> chunks[k], type |-> category]]
    ELSE <<>>

mixedWavesFor(catRepos, category, firstNum, cfg) ==
    IF Len(catRepos) > 0
    THEN LET chunks == ChunkFrom(catRepos, 0, getWaveSizeForCategory(category, cfg))
         IN  [k \in 1..Len(chunks) |->
                 [org |-> MIXED_SMALL_ORGS, waveNum |-> firstNum + k - 1,
                  repos |-> chunks[k], type |-> category]]
    ELSE <<>>

createMixedOrgWaves(repos, cfg) ==
    LET sortedRepos == sortMixed(repos)
        smallRepos == filterCategory(sortedRepos, "small")
        mediumRepos == filterCategory(sortedRepos, "medium")
        largeRepos == filterCategory(sortedRepos, "large")
        w1 == mixedWavesFor(smallRepos, "small", 1, cfg)
        w2 == mixedWavesFor(mediumRepos, "medium", 1 + Len(w1), cfg)
        w3 == mixedWavesFor(largeRepos, "large", 1 + Len(w1) + Len(w2), cfg)
    IN  w1 \o w2 \o w3

----------------------------------------------------------------------------
(* calculateWaveStats.  An average is the exact quotient, kept as a        *)
(* fraction in lowest terms; 0 is 0/1.                                     *)

RECURSIVE SumLen(_)
SumLen(waves) ==
    IF waves = <<>> THEN 0
    ELSE IF Len(waves) = 1 THEN Len(waves[1].repos)
    ELSE LET half == Len(waves) \div 2
         IN  SumLen(SubSeq(waves, 1, half)) + SumLen(SubSeq(waves, half + 1, Len(waves)))

RECURSIVE CountCategory(_, _)
CountCategory(waves, category) ==
    IF waves = <<>> THEN 0
    ELSE IF Len(waves) = 1
    THEN Len(SelectSeq(waves[1].repos, LAMBDA r : r.sizeCategory = category))
    ELSE LET half == Len(waves) \div 2
         IN  CountCategory(SubSeq(waves, 1, half), category)
             + CountCategory(SubSeq(waves, half + 1, Len(waves)), category)

wavesOfType(waves, category) == SelectSeq(waves, LAMBDA w : w.type = category)

RECURSIVE Gcd(_, _)
Gcd(a, b) == IF b = 0 THEN a ELSE Gcd(b, a % b)

Quotient(total, n) ==
    LET g == Gcd(total, n) IN [num |-> total \div g, den |-> n \div g]

Zero == [num |-> 0, den |-> 1]

\* the averages without the `> 0` guards: 0 / 0 is NaN, written 0/0
calculateWaveStatsUnguarded(waves) ==
    LET smallWaves == Len(wavesOfType(waves, "small"))
        mediumWaves == Len(wavesOfType(waves, "medium"))
        largeWaves == Len(wavesOfType(waves, "large"))
        Avg(total, n) == IF n = 0 THEN [num |-> 0, den |-> 0] ELSE Quotient(total, n)
    IN  [totalRepos |-> SumLen(waves),
         totalWaves |-> Len(waves),
         smallRepos |-> CountCategory(waves, "small"),
         mediumRepos |-> CountCategory(waves, "medium"),
         largeRepos |-> CountCategory(waves, "large"),
         smallWaves |-> smallWaves,
         mediumWaves |-> mediumWaves,
         largeWaves |-> largeWaves,
         avgSmallWaveSize |-> Avg(SumLen(wavesOfType(waves, "small")), smallWaves),
         avgMediumWaveSize |-> Avg(SumLen(wavesOfType(waves, "medium")), mediumWaves),
         avgLargeWaveSize |-> Avg(SumLen(wavesOfType(waves, "large")), largeWaves)]

\* every average taken over the number of all waves
calculateWaveStatsOverAllWaves(waves) ==
    LET smallWaves == Len(wavesOfType(waves, "small"))
        mediumWaves == Len(wavesOfType(waves, "medium"))
        largeWaves == Len(wavesOfType(waves, "large"))
        smallWaveRepos == SumLen(wavesOfType(waves, "small"))
        mediumWaveRepos == SumLen(wavesOfType(waves, "medium"))
        largeWaveRepos == SumLen(wavesOfType(waves, "large"))
    IN  [totalRepos |-> SumLen(waves),
         totalWaves |-> Len(waves),
         smallRepos |-> CountCategory(waves, "small"),
         mediumRepos |-> CountCategory(waves, "medium"),
         largeRepos |-> CountCategory(waves, "large"),
         smallWaves |-> smallWaves,
         mediumWaves |-> mediumWaves,
         largeWaves |-> largeWaves,
         avgSmallWaveSize |->
             IF smallWaves > 0 THEN Quotient(smallWaveRepos, Len(waves)) ELSE Zero,
         avgMediumWaveSize |->
             IF mediumWaves > 0 THEN Quotient(mediumWaveRepos, Len(waves)) ELSE Zero,
         avgLargeWaveSize |->
             IF largeWaves > 0 THEN Quotient(largeWaveRepos, Len(waves)) ELSE Zero]

calculateWaveStats(waves) ==
    LET smallWaves == Len(wavesOfType(waves, "small"))
        mediumWaves == Len(wavesOfType(waves, "medium"))
        largeWaves == Len(wavesOfType(waves, "large"))
        smallWaveRepos == SumLen(wavesOfType(waves, "small"))
        mediumWaveRepos == SumLen(wavesOfType(waves, "medium"))
        largeWaveRepos == SumLen(wavesOfType(waves, "large"))
    IN  [totalRepos |-> SumLen(waves),
         totalWaves |-> Len(waves),
         smallRepos |-> CountCategory(waves, "small"),
         mediumRepos |-> CountCategory(waves, "medium"),
         largeRepos |-> CountCategory(waves, "large"),
         smallWaves |-> smallWaves,
         mediumWaves |-> mediumWaves,
         largeWaves |-> largeWaves,
         avgSmallWaveSize |->
             IF smallWaves > 0 THEN Quotient(smallWaveRepos, smallWaves) ELSE Zero,
         avgMediumWaveSize |->
             IF mediumWaves > 0 THEN Quotient(mediumWaveRepos, mediumWaves) ELSE Zero,
         avgLargeWaveSize |->
             IF largeWaves > 0 THEN Quotient(largeWaveRepos, largeWaves) ELSE Zero]

----------------------------------------------------------------------------
(* Grouping by organization: a Map keeps its keys in insertion order, so   *)
(* the groups are a sequence of [org, repos] in first-occurrence order.    *)

groupPushOverwrite(groups, repo) ==
    IF \E i \in DOMAIN groups : groups[i].org = repo.orgName
    THEN [i \in DOMAIN groups |->
             IF groups[i].org = repo.orgName
             THEN [groups[i] EXCEPT !.repos = <<repo>>]
             ELSE groups[i]]
    ELSE Append(groups, [org |-> repo.orgName, repos |-> <<repo>>])

\* existing = orgGroups.get(repo.orgName) || []; existing.push(repo); set(...)
groupPush(groups, repo) ==
    IF \E i \in DOMAIN groups : groups[i].org = repo.orgName
    THEN [i \in DOMAIN groups |->
             IF groups[i].org = repo.orgName
             THEN [groups[i] EXCEPT !.repos = Append(@, repo)]
             ELSE groups[i]]
    ELSE Append(groups, [org |-> repo.orgName, repos |-> <<repo>>])

\* an omitted orgThreshold read as 0: every organization dedicated
orgThresholdZeroDefault(cfg) ==
    IF "orgThreshold" \in DOMAIN cfg THEN cfg.orgThreshold ELSE 0

\* `config?.orgThreshold ?? ORG_DEDICATED_WAVES_THRESHOLD`
orgThresholdOf(cfg) ==
    IF "orgThreshold" \in DOMAIN cfg THEN cfg.orgThreshold
    ELSE ORG_DEDICATED_WAVES_THRESHOLD

----------------------------------------------------------------------------
(* generateMigrationWaves as one call: what a caller that does not watch   *)
(* its steps gets back: the plan [waves, stats], or [error] when it throws. *)

\* the Map after the forEach: one entry per organization, in the order of
\* first occurrence, holding that organization's repositories in list order
groupByOrg(repos) ==
    LET firsts == {i \in DOMAIN repos :
                      \A j \in 1..(i - 1) : repos[j].orgName # repos[i].orgName}
    IN  [k \in 1..Cardinality(firsts) |->
            LET i == CHOOSE i \in firsts : Cardinality({j \in firsts : j <= i}) = k
            IN  [org |-> repos[i].orgName,
                 repos |-> SelectSeq(repos, LAMBDA r : r.orgName = repos[i].orgName)]]

\* push(...list) for each list of a sequence of lists, in order
RECURSIVE PushAll(_)
PushAll(lists) ==
    IF lists = << >> THEN << >>
    ELSE IF Len(lists) = 1 THEN lists[1]
    ELSE LET half == Len(lists) \div 2
         IN  PushAll(SubSeq(lists, 1, half)) \o PushAll(SubSeq(lists, half + 1, Len(lists)))

generateMigrationWaves(repos, T, cfg) ==
    LET mapped ==
            [i \in DOMAIN repos |->
                LET metadataRecords == calculateMetadataRecords(repos[i])
                IN  [orgName |-> repos[i].Org_Name,
                     repoName |-> repos[i].Repo_Name,
                     sizeMB |-> repos[i].Repo_Size_MB,
                     metadataRecords |-> metadataRecords,
                     sizeCategory |->
                         classifyRepositorySize(repos[i].Repo_Size_MB,
                                                metadataRecords, T)]]
    IN  IF \E i \in DOMAIN mapped : mapped[i].sizeCategory = ConfigError
        THEN [error |-> ConfigError]
        ELSE LET groups == groupByOrg(mapped)
                 dedicated == SelectSeq(groups,
                                  LAMBDA g : Len(g.repos) >= orgThresholdOf(cfg))
                 small == SelectSeq(groups,
                              LAMBDA g : ~(Len(g.repos) >= orgThresholdOf(cfg)))
                 smallRepos == PushAll([k \in DOMAIN small |-> small[k].repos])
                 orgWaves == PushAll([k \in DOMAIN dedicated |->
                                 createOrgWaves(dedicated[k].org, dedicated[k].repos, cfg)])
                 waves == IF Len(smallRepos) > 0
                          THEN createMixedOrgWaves(smallRepos, cfg) \o orgWaves
                          ELSE orgWaves
             IN  [waves |-> waves, stats |-> calculateWaveStats(waves)]

----------------------------------------------------------------------------
(* Inputs.  Sizes and counters sit around the default thresholds, so that  *)
(* every category is reached by size and by metadata.                      *)

NoCounts == [f \in {MetadataFields[k] : k \in DOMAIN MetadataFields} |-> 0]

Repo(org, name, sizeMB, counts) ==
    [Org_Name |-> org, Repo_Name |-> name, Repo_Size_MB |-> sizeMB] @@ counts

RepoUniverse ==
    { Repo("acme", "alpha", 10,
           [Branch_Count |-> 7, Collaborator_Count |-> 3, Project_Count |-> 2]
           @@ [NoCounts EXCEPT !.Issue_Count = 60, !.Pull_Request_Count = 40]),
      Repo("acme", "beta", 600, [NoCounts EXCEPT !.Tag_Count = 1000]),
      Repo("acme", "gamma", 2500,
           [Branch_Count |-> 4096, Protected_Branch_Count |-> 8192]
           @@ [PR_Review_Count |-> 1, Issue_Count |-> 2, Pull_Request_Count |-> 4,
               PR_Review_Comment_Count |-> 8, Commit_Comment_Count |-> 16,
               Issue_Comment_Count |-> 32, Issue_Event_Count |-> 64,
               Release_Count |-> 128, Milestone_Count |-> 256,
               Tag_Count |-> 512, Discussion_Count |-> 3977]),
      Repo("globex", "one", 10, [Issue_Count |-> 100]),
      Repo("globex", "two", 5, [NoCounts EXCEPT !.Issue_Comment_Count = 75000]),
      Repo(MIXED_SMALL_ORGS, "x", 20, NoCounts),
      Repo(MIXED_SMALL_ORGS, "y", 10, [NoCounts EXCEPT !.PR_Review_Count = 200000]) }

\* a repository of a long list: only the name, the size and the issue count vary
BulkRepo(org, i, sizeMB, issues) ==
    Repo(org, "r" \o ToString(i), sizeMB, [NoCounts EXCEPT !.Issue_Count = issues])

\* 200 small repositories of one organization, sizes out of order
BulkSmall ==
    [i \in 1..200 |-> BulkRepo("acme", i, 1 + ((i * 37) % 200), i % 3)]

\* 10 repositories of globex, 10 of hooli and 60 of acme, interleaved; acme
\* has 28 small, 26 medium and 6 large ones
OrgPooling ==
    [i \in 1..80 |->
        CASE i % 8 = 0 -> BulkRepo("globex", i, 90 - i, 0)
          [] i % 8 = 1 -> BulkRepo("hooli", i, 600 + i, 0)
          [] i % 8 \in {2, 3} -> BulkRepo("acme", i, (i * 13) % 400, i % 2)
          [] i % 8 \in {5, 6} -> BulkRepo("acme", i, 500 + ((i * 7) % 1000), 0)
          [] i % 8 = 4 -> IF i <= 48 THEN BulkRepo("acme", i, 700 - i, 0)
                          ELSE BulkRepo("acme", i, 100 + i, 0)
          [] i % 8 = 7 -> IF i <= 48 THEN BulkRepo("acme", i, 2000 + i, 0)
                          ELSE BulkRepo("acme", i, 5, 200 - i)]

\* two repositories of acme, two of an organization named like the pooled
\* identifier, one of globex
SentinelBetween ==
    LET named(o, n) == CHOOSE r \in RepoUniverse : r.Org_Name = o /\ r.Repo_Name = n
    IN  <<named("acme", "alpha"), named("acme", "beta"),
          named(MIXED_SMALL_ORGS, "x"), named(MIXED_SMALL_ORGS, "y"),
          named("globex", "one")>>

\* six repositories alike in size and counters: three of acme, two of
\* globex, one of hooli, the organizations interleaved
Ties ==
    [i \in 1..6 |->
        BulkRepo(CASE i \in {2, 4, 6} -> "acme" [] i \in {1, 5} -> "globex"
                   [] OTHER -> "hooli", i, 10, 5)]

ScenarioLists == {BulkSmall, OrgPooling, SentinelBetween, Ties}

RepoLists ==
    UNION { [1..n -> RepoUniverse] : n \in 0..MaxRepos } \cup ScenarioLists

ConfigChoices ==
    { << >>,
      [waveSizeSmall |-> 1, waveSizeMedium |-> 1, waveSizeLarge |-> 1,
       orgThreshold |-> 2],
      [waveSizeSmall |-> 2, orgThreshold |-> 1],
      [waveSizeSmall |-> 2, waveSizeMedium |-> 2, waveSizeLarge |-> 2,
       orgThreshold |-> 3] }

ThresholdChoices ==
    { DEFAULT_THRESHOLDS,
      [smallSizeMB |-> 500, largeSizeMB |-> 100,
       smallMetadata |-> 1, largeMetadata |-> 2],
      [smallSizeMB |-> 500, largeSizeMB |-> 2000,
       smallMetadata |-> 2, largeMetadata |-> 1] }

----------------------------------------------------------------------------
(* parseGhGithubStatsJson.  Its argument is whatever JSON.parse gave: a     *)
(* value is a record tagged with its JavaScript type, a number is the       *)
(* fraction n/d in lowest terms (0/0 is NaN), an object is a record from    *)
(* the property names it has to their values.  Of the returned record the   *)
(* fields up to Migration_Issue are modelled; the optional ones after it    *)
(* are copied from the source object as they are.                           *)

Undefined == [t |-> "undefined"]

Null == [t |-> "null"]

Num(k) == [t |-> "number", n |-> k, d |-> 1]

NaN == [t |-> "number", n |-> 0, d |-> 0]

Str(s) == [t |-> "string", v |-> s]

Bool(b) == [t |-> "boolean", v |-> b]

Arr(items) == [t |-> "array", items |-> items]

Obj(props) == [t |-> "object", props |-> props]

\* n/d in lowest terms, d > 0
Fraction(n, d) ==
    LET g == Gcd(IF n < 0 THEN -n ELSE n, d)
    IN  [t |-> "number", n |-> n \div g, d |-> d \div g]

\* `obj.name`
Get(props, name) == IF name \in DOMAIN props THEN props[name] ELSE Undefined

\* ToBoolean
Truthy(x) ==
    CASE x.t = "number" -> x.d # 0 /\ x.n # 0
      [] x.t = "string" -> x.v # ""
      [] x.t = "boolean" -> x.v
      [] x.t \in {"array", "object"} -> TRUE
      [] OTHER -> FALSE

\* `x || y`
OrElse(x, y) == IF Truthy(x) THEN x ELSE y

\* the strings of the inputs that read as numbers
NumericStrings == [s \in {"12"} |-> 12]

\* ToNumber
ToNumber(x) ==
    CASE x.t = "number" -> x
      [] x.t = "null" -> Num(0)
      [] x.t = "boolean" -> Num(IF x.v THEN 1 ELSE 0)
      [] x.t = "string" -> IF x.v = "" THEN Num(0)
                           ELSE IF x.v \in DOMAIN NumericStrings
                                THEN Num(NumericStrings[x.v])
                                ELSE NaN
      [] OTHER -> NaN

\* `x / 1024`
DivideBy1024(x) ==
    LET a == ToNumber(x)
    IN  IF a.d = 0 THEN NaN ELSE Fraction(a.n, a.d * 1024)

\* `Math.round(x * 100) / 100`; Math.round rounds halves up
RoundToHundredths(x) ==
    LET a == ToNumber(x)
    IN  IF a.d = 0 THEN NaN
        ELSE Fraction((200 * a.n + a.d) \div (2 * a.d), 100)

\* the callback of `repos.map`
parseRepo(repo) ==
    LET sizeInMB == IF Get(repo, "sizeMB") # Undefined THEN Get(repo, "sizeMB")
                    ELSE IF Get(repo, "diskUsage") # Undefined
                         THEN DivideBy1024(Get(repo, "diskUsage"))
                         ELSE Num(0)
    IN  [Org_Name |-> Get(repo, "org"),
         Repo_Name |-> OrElse(Get(repo, "name"), OrElse(Get(repo, "repo"), Str("unknown"))),
         Repo_Size_MB |-> RoundToHundredths(sizeInMB),
         Issue_Count |-> OrElse(Get(repo, "issues"), Num(0)),
         Pull_Request_Count |-> OrElse(Get(repo, "pullRequests"), Num(0)),
         Commit_Comment_Count |-> OrElse(Get(repo, "commitComments"), Num(0)),
         Milestone_Count |-> OrElse(Get(repo, "milestones"), Num(0)),
         Release_Count |-> OrElse(Get(repo, "releases"), Num(0)),
         Tag_Count |-> OrElse(Get(repo, "tags"), Num(0)),
         Issue_Comment_Count |-> Num(0),
         PR_Review_Comment_Count |-> Num(0),
         Branch_Count |-> OrElse(Get(repo, "branches"), Num(0)),
         Last_Push |-> OrElse(Get(repo, "pushedAt"), Str("")),
         Created |-> OrElse(Get(repo, "createdAt"), Str("")),
         Collaborator_Count |-> OrElse(Get(repo, "collaborators"), Num(0)),
         Protected_Branch_Count |->
             IF Get(repo, "branchProtections") # Undefined
             THEN Get(repo, "branchProtections")
             ELSE OrElse(Get(repo, "protectedBranches"), Num(0)),
         Project_Count |-> OrElse(Get(repo, "projects"), Num(0)),
         Has_Wiki |-> IF Truthy(IF Get(repo, "hasWikiEnabled") # Undefined
                                THEN Get(repo, "hasWikiEnabled")
                                ELSE Get(repo, "hasWiki"))
                      THEN Num(1) ELSE Num(0),
         Discussion_Count |-> OrElse(Get(repo, "discussions"), Num(0)),
         PR_Review_Count |-> Num(0),
         Issue_Event_Count |-> OrElse(Get(repo, "issueEvents"), Num(0)),
         Is_Empty |-> Bool(FALSE),
         Is_Fork |-> OrElse(Get(repo, "isFork"), Bool(FALSE)),
         Is_Archived |-> OrElse(Get(repo, "isArchived"), Bool(FALSE)),
         Last_Update |-> OrElse(Get(repo, "updatedAt"), Str("")),
         Repo_URL |-> OrElse(Get(repo, "url"), Str("")),
         Migration_Issue |-> Bool(FALSE)]

\* what a call does: [repos, orgs] returned, or [error] thrown.  Reading a
\* property of null or undefined is a TypeError, of a number or a string
\* gives undefined; so does calling `map` on what is not an array.
parseGhGithubStatsJson(data) ==
    LET isArray == data.t = "array"
        readable == data.t \notin {"null", "undefined"}
        repos == IF isArray THEN data
                 ELSE IF data.t = "object" THEN Get(data.props, "repos")
                 ELSE Undefined
        orgsIn == IF data.t = "object" THEN Get(data.props, "orgs") ELSE Undefined
    IN  IF ~readable THEN [error |-> "TypeError"]
        ELSE IF ~isArray /\ Truthy(orgsIn) /\ orgsIn.t # "array"
        THEN [error |-> "TypeError"]
        ELSE IF ~Truthy(repos) \/ repos.t # "array" THEN [error |-> "Error"]
        ELSE IF \E i \in DOMAIN repos.items : repos.items[i].t \in {"null", "undefined"}
        THEN [error |-> "TypeError"]
        ELSE [repos |-> [i \in DOMAIN repos.items |->
                            parseRepo(IF repos.items[i].t = "object"
                                      THEN repos.items[i].props ELSE << >>)],
              orgsParsed |-> ~isArray /\ Truthy(orgsIn)]

\* repository objects as a gh-github-stats file, or any other JSON file,
\* can hold them
JsonRepos ==
    { Obj([org |-> Str("acme"), name |-> Str("alpha"), sizeMB |-> Num(10),
           issues |-> Num(60), pullRequests |-> Num(40), commitComments |-> Num(1),
           milestones |-> Num(2), releases |-> Num(3), tags |-> Num(4),
           discussions |-> Num(5), issueEvents |-> Num(6), branches |-> Num(7),
           collaborators |-> Num(3), branchProtections |-> Num(0),
           protectedBranches |-> Num(9), projects |-> Num(2),
           hasWikiEnabled |-> Bool(FALSE), hasWiki |-> Bool(TRUE),
           isFork |-> Bool(TRUE), isArchived |-> Bool(FALSE),
           url |-> Str("https://github.com/acme/alpha")]),
      Obj(<< >>),
      Obj([org |-> Str("acme"), repo |-> Str("beta"), diskUsage |-> Num(1536),
           issues |-> Num(0), isFork |-> Bool(FALSE), isArchived |-> Bool(TRUE)]),
      Obj([org |-> Str("acme"), name |-> Str(""), diskUsage |-> Num(5),
           sizeMB |-> Null, tags |-> Null, isFork |-> Null]),
      Obj([org |-> Str("globex"), name |-> Str("one"), diskUsage |-> Num(1029),
           protectedBranches |-> Num(9), hasWiki |-> Bool(TRUE)]),
      Obj([org |-> Str("globex"), name |-> Str("two"), sizeMB |-> Num(0),
           diskUsage |-> Num(4096)]),
      Obj([org |-> Str("globex"), name |-> Str("three"), issues |-> Str("12"),
           sizeMB |-> Str("12")]),
      Obj([org |-> Str("globex"), name |-> Str("four"), isFork |-> Num(1),
           isArchived |-> Str("yes"), sizeMB |-> Str("big")]) }

MaxJsonRepos == 2

JsonArrays == UNION { [1..n -> JsonRepos] : n \in 0..MaxJsonRepos }

\* what JSON.parse can hand over
JsonInputs ==
    {Arr(a) : a \in JsonArrays}
    \cup {Obj([repos |-> Arr(a)]) : a \in JsonArrays}
    \cup {Obj([repos |-> Arr(a), orgs |-> Arr(<< >>)]) : a \in JsonArrays}
    \cup { Null, Num(5), Str("repos"), Bool(TRUE), Obj(<< >>),
           Obj([orgs |-> Arr(<< >>)]), Obj([repos |-> Null]),
           Obj([repos |-> Str("acme/alpha")]), Obj([repos |-> Num(3)]),
           Obj([repos |-> Obj([org |-> Str("acme")])]),
           Obj([Repos |-> Arr(<< >>)]) }

NotParsed == [parsed |-> FALSE]

ParseIdle == jpc = "idle" /\ jsonData = Undefined /\ jResult = NotParsed

----------------------------------------------------------------------------
(* generateMigrationWaves, step by step *)

NoStats == calculateWaveStats(<< >>)

PlanIdle ==
    /\ pc = "idle"
    /\ repositories = << >>
    /\ thresholds = DEFAULT_THRESHOLDS
    /\ config = << >>
    /\ migrationRepos = << >>
    /\ mapIdx = 1
    /\ metaCalls = 0
    /\ orgGroups = << >>
    /\ groupIdx = 1
    /\ orgIdx = 1
    /\ allWaves = << >>
    /\ smallOrgRepos = << >>
    /\ builderCalls = 0
    /\ stats = NoStats

ClassifyIdle ==
    /\ cpc = "idle"
    /\ cSize = 0
    /\ cMeta = 0
    /\ cThresholds = DEFAULT_THRESHOLDS
    /\ cResult = "none"

ChunkIdle ==
    /\ lpc = "idle"
    /\ lType = "small"
    /\ lRepos = << >>
    /\ lWaveSize = WAVE_SIZE_SMALL
    /\ lI = 0
    /\ lWaves = << >>

\* the caller holds no earlier result
NoResult == [kept |-> FALSE]

\* `null`, where a plan [waves, stats] could be
NullResult == [null |-> TRUE]

\* the planner has not been invoked
NotInvoked == [invoked |-> FALSE]

\* the component is not on the page
FormUnmounted ==
    /\ uiMounted = FALSE
    /\ uiRepositories = << >>
    /\ uiThresholds = DEFAULT_THRESHOLDS
    /\ uiHasError = FALSE
    /\ uiResult = NullResult
    /\ uiWavesByOrg = << >>
    /\ uiInvokedWith = NotInvoked

\* a caller invokes generateMigrationWaves(repos, T, cfg); the locals are fresh
Call ==
    /\ pc = "idle"
    /\ \E repos \in RepoLists, T \in ThresholdChoices, cfg \in ConfigChoices :
          /\ repositories' = repos
          /\ thresholds' = T
          /\ config' = cfg
    /\ pc' = "map"
    /\ migrationRepos' = << >>
    /\ mapIdx' = 1
    /\ metaCalls' = 0
    /\ orgGroups' = << >>
    /\ groupIdx' = 1
    /\ orgIdx' = 1
    /\ allWaves' = << >>
    /\ smallOrgRepos' = << >>
    /\ builderCalls' = 0
    /\ stats' = NoStats
    /\ UNCHANGED <<classifyVars, chunkVars, earlier, formVars, parseVars>>

\* the map callback writing the category into the caller's record
MapStepAnnotating ==
    /\ pc = "map"
    /\ mapIdx <= Len(repositories)
    /\ LET repo == repositories[mapIdx]
           metadataRecords == calculateMetadataRecords(repo)
           sizeCategory ==
               classifyRepositorySize(repo.Repo_Size_MB, metadataRecords, thresholds)
       IN  /\ metaCalls' = metaCalls + 1
           /\ IF sizeCategory = ConfigError
              THEN /\ pc' = "raised"
                   /\ UNCHANGED <<migrationRepos, mapIdx, repositories>>
              ELSE /\ migrationRepos' =
                        Append(migrationRepos,
                               [orgName |-> repo.Org_Name,
                                repoName |-> repo.Repo_Name,
                                sizeMB |-> repo.Repo_Size_MB,
                                metadataRecords |-> metadataRecords,
                                sizeCategory |-> sizeCategory])
                   /\ repositories' =
                        [repositories EXCEPT ![mapIdx] =
                            [f \in DOMAIN repo \cup {"sizeCategory"} |->
                                IF f = "sizeCategory" THEN sizeCategory ELSE repo[f]]]
                   /\ mapIdx' = mapIdx + 1
                   /\ pc' = "map"
    /\ UNCHANGED <<thresholds, config, orgGroups, groupIdx, orgIdx,
                   allWaves, smallOrgRepos, builderCalls, stats>>
    /\ UNCHANGED <<classifyVars, chunkVars, earlier, formVars, parseVars>>

\* one run of the callback of repositories.map
MapStep ==
    /\ pc = "map"
    /\ mapIdx <= Len(repositories)
    /\ LET repo == repositories[mapIdx]
           metadataRecords == calculateMetadataRecords(repo)
           sizeCategory ==
               classifyRepositorySize(repo.Repo_Size_MB, metadataRecords, thresholds)
       IN  /\ metaCalls' = metaCalls + 1
           /\ IF sizeCategory = ConfigError
              THEN /\ pc' = "raised"
                   /\ UNCHANGED <<migrationRepos, mapIdx>>
              ELSE /\ migrationRepos' =
                        Append(migrationRepos,
                               [orgName |-> repo.Org_Name,
                                repoName |-> repo.Repo_Name,
                                sizeMB |-> repo.Repo_Size_MB,
                                metadataRecords |-> metadataRecords,
                                sizeCategory |-> sizeCategory])
                   /\ mapIdx' = mapIdx + 1
                   /\ pc' = "map"
    /\ UNCHANGED <<repositories, thresholds, config, orgGroups, groupIdx, orgIdx,
                   allWaves, smallOrgRepos, builderCalls, stats>>
    /\ UNCHANGED <<classifyVars, chunkVars, earlier, formVars, parseVars>>

\* migrationRepos.forEach(...) filling orgGroups, once the map is over: one
\* run of its callback, or the end of the forEach
GroupStep ==
    /\ \/ pc = "map" /\ mapIdx > Len(repositories)
       \/ pc = "group"
    /\ IF groupIdx <= Len(migrationRepos)
       THEN /\ orgGroups' = groupPush(orgGroups, migrationRepos[groupIdx])
            /\ groupIdx' = groupIdx + 1
            /\ pc' = "group"
       ELSE /\ pc' = "orgs"
            /\ UNCHANGED <<orgGroups, groupIdx>>
    /\ UNCHANGED <<repositories, thresholds, config, migrationRepos, mapIdx,
                   metaCalls, orgIdx, allWaves, smallOrgRepos, builderCalls, stats>>
    /\ UNCHANGED <<classifyVars, chunkVars, earlier, formVars, parseVars>>

\* one run of the callback of orgGroups.forEach
ProcessOrg ==
    /\ pc = "orgs"
    /\ orgIdx <= Len(orgGroups)
    /\ LET repos == orgGroups[orgIdx].repos
           orgName == orgGroups[orgIdx].org
       IN  IF Len(repos) >= orgThresholdOf(config)
           THEN /\ allWaves' = allWaves \o createOrgWaves(orgName, repos, config)
                /\ builderCalls' = builderCalls + 1
                /\ UNCHANGED smallOrgRepos
           ELSE /\ smallOrgRepos' = smallOrgRepos \o repos
                /\ UNCHANGED <<allWaves, builderCalls>>
    /\ orgIdx' = orgIdx + 1
    /\ UNCHANGED <<pc, repositories, thresholds, config, migrationRepos, mapIdx,
                   metaCalls, orgGroups, groupIdx, stats>>
    /\ UNCHANGED <<classifyVars, chunkVars, earlier, formVars, parseVars>>

MixedPushedLast ==
    /\ pc = "orgs"
    /\ orgIdx > Len(orgGroups)
    /\ LET waves == IF Len(smallOrgRepos) > 0
                    THEN allWaves \o createMixedOrgWaves(smallOrgRepos, config)
                    ELSE allWaves
       IN  /\ allWaves' = waves
           /\ stats' = calculateWaveStats(waves)
    /\ builderCalls' = IF Len(smallOrgRepos) > 0 THEN builderCalls + 1
                       ELSE builderCalls
    /\ pc' = "done"
    /\ UNCHANGED <<repositories, thresholds, config, migrationRepos, mapIdx,
                   metaCalls, orgGroups, groupIdx, orgIdx, smallOrgRepos>>
    /\ UNCHANGED <<classifyVars, chunkVars, earlier, formVars, parseVars>>

\* the pooled waves go in front, then the statistics, then the return
MixedAndStats ==
    /\ pc = "orgs"
    /\ orgIdx > Len(orgGroups)
    /\ LET waves == IF Len(smallOrgRepos) > 0
                    THEN createMixedOrgWaves(smallOrgRepos, config) \o allWaves
                    ELSE allWaves
       IN  /\ allWaves' = waves
           /\ stats' = calculateWaveStats(waves)
    /\ builderCalls' = IF Len(smallOrgRepos) > 0 THEN builderCalls + 1
                       ELSE builderCalls
    /\ pc' = "done"
    /\ UNCHANGED <<repositories, thresholds, config, migrationRepos, mapIdx,
                   metaCalls, orgGroups, groupIdx, orgIdx, smallOrgRepos>>
    /\ UNCHANGED <<classifyVars, chunkVars, earlier, formVars, parseVars>>

\* the call is over (returned or thrown); its locals are gone
Return ==
    /\ pc \in {"done", "raised"}
    /\ pc' = "idle"
    /\ repositories' = << >>
    /\ thresholds' = DEFAULT_THRESHOLDS
    /\ config' = << >>
    /\ migrationRepos' = << >>
    /\ mapIdx' = 1
    /\ metaCalls' = 0
    /\ orgGroups' = << >>
    /\ groupIdx' = 1
    /\ orgIdx' = 1
    /\ allWaves' = << >>
    /\ smallOrgRepos' = << >>
    /\ builderCalls' = 0
    /\ stats' = NoStats
    /\ UNCHANGED <<classifyVars, chunkVars, earlier, formVars, parseVars>>

Init == PlanIdle /\ ClassifyIdle /\ ChunkIdle /\ earlier = NoResult /\ FormUnmounted
        /\ ParseIdle

Next == Call \/ MapStep \/ GroupStep \/ ProcessOrg \/ MixedAndStats \/ Return

Spec == Init /\ [][Next]_vars

----------------------------------------------------------------------------
(* One call of classifyRepositorySize *)

ClassifyCall ==
    /\ cpc = "idle"
    /\ \E s \in 0..MaxSize, m \in 0..MaxMeta, T \in ThresholdSpace :
          /\ cSize' = s
          /\ cMeta' = m
          /\ cThresholds' = T
    /\ cpc' = "called"
    /\ cResult' = "none"
    /\ UNCHANGED <<planVars, chunkVars, earlier, formVars, parseVars>>

ClassifyRun ==
    /\ cpc = "called"
    /\ cResult' = classifyRepositorySize(cSize, cMeta, cThresholds)
    /\ cpc' = IF cResult' = ConfigError THEN "raised" ELSE "returned"
    /\ UNCHANGED <<cSize, cMeta, cThresholds>>
    /\ UNCHANGED <<planVars, chunkVars, earlier, formVars, parseVars>>

ClassifyReturn ==
    /\ cpc \in {"returned", "raised"}
    /\ cpc' = "idle"
    /\ cSize' = 0
    /\ cMeta' = 0
    /\ cThresholds' = DEFAULT_THRESHOLDS
    /\ cResult' = "none"
    /\ UNCHANGED <<planVars, chunkVars, earlier, formVars, parseVars>>

NextClassify == ClassifyCall \/ ClassifyRun \/ ClassifyReturn

SpecClassify == Init /\ [][NextClassify]_vars

----------------------------------------------------------------------------
(* One chunking loop of a wave builder (the three loops of createOrgWaves  *)
(* and the three of createMixedOrgWaves have the same shape):              *)
(*   const waveSize = getWaveSizeForCategory(type, config);                *)
(*   for (let i = 0; i < repos.length; i += waveSize)                      *)
(*       waves.push({ ..., repos: repos.slice(i, i + waveSize), type })    *)
(* The category list is the sequence 1..n of its positions.                *)

\* longest category list handed to the loop
MaxChunkList == 5

\* iterations after which a loop that is still running is left alone
MaxChunkWaves == 7

\* a WaveConfig is typed `number` per field and is not validated anywhere
ChunkConfigs ==
    { << >>,
      [waveSizeSmall |-> 1, waveSizeMedium |-> 2, waveSizeLarge |-> 3],
      [waveSizeSmall |-> 0],
      [waveSizeMedium |-> -1],
      [waveSizeSmall |-> 2, waveSizeLarge |-> 0] }

\* the builder enters the loop of one category
ChunkCall ==
    /\ lpc = "idle"
    /\ \E n \in 1..MaxChunkList, type \in Categories, cfg \in ChunkConfigs :
          /\ lRepos' = [k \in 1..n |-> k]
          /\ lType' = type
          /\ lWaveSize' = getWaveSizeForCategory(type, cfg)
    /\ lI' = 0
    /\ lWaves' = << >>
    /\ lpc' = "loop"
    /\ UNCHANGED <<classifyVars, planVars, earlier, formVars, parseVars>>

\* the loop test holds: one run of the body, then `i += waveSize`
ChunkStep ==
    /\ lpc = "loop"
    /\ lI < Len(lRepos)
    /\ Len(lWaves) < MaxChunkWaves
    /\ lWaves' = Append(lWaves, [waveNum |-> Len(lWaves) + 1,
                                 repos |-> Slice(lRepos, lI, lI + lWaveSize),
                                 type |-> lType])
    /\ lI' = lI + lWaveSize
    /\ UNCHANGED <<lpc, lType, lRepos, lWaveSize>>
    /\ UNCHANGED <<classifyVars, planVars, earlier, formVars, parseVars>>

\* the loop test fails: the loop is left
ChunkExit ==
    /\ lpc = "loop"
    /\ ~(lI < Len(lRepos))
    /\ lpc' = "exit"
    /\ UNCHANGED <<lType, lRepos, lWaveSize, lI, lWaves>>
    /\ UNCHANGED <<classifyVars, planVars, earlier, formVars, parseVars>>

\* the builder goes on; the loop's locals are gone
ChunkReturn ==
    /\ lpc = "exit"
    /\ lpc' = "idle"
    /\ lType' = "small"
    /\ lRepos' = << >>
    /\ lWaveSize' = WAVE_SIZE_SMALL
    /\ lI' = 0
    /\ lWaves' = << >>
    /\ UNCHANGED <<classifyVars, planVars, earlier, formVars, parseVars>>

NextChunk == ChunkCall \/ ChunkStep \/ ChunkExit \/ ChunkReturn

SpecChunk == Init /\ [][NextChunk]_vars

----------------------------------------------------------------------------
(* Invocation after invocation.  A caller invokes generateMigrationWaves    *)
(* again once the previous invocation has returned or thrown, and may keep  *)
(* one earlier outcome {waves, stats} together with the arguments it came   *)
(* from.  What the previous invocation left in the locals is still there    *)
(* when the next one starts; the declarations at the top of the function    *)
(* are what makes them fresh.                                               *)

HistoryRepos == {r \in RepoUniverse : r.Org_Name = "acme"}

HistoryLists == UNION { [1..n -> HistoryRepos] : n \in 0..2 }

HistoryConfigs ==
    { << >>,
      [waveSizeSmall |-> 1, waveSizeMedium |-> 1, waveSizeLarge |-> 1,
       orgThreshold |-> 2] }

\* the outcome of the invocation that has just ended, as the caller sees it
JustEnded ==
    [kept |-> TRUE, repositories |-> repositories, thresholds |-> thresholds,
     config |-> config, outcome |-> pc, waves |-> allWaves, stats |-> stats,
     others |-> FALSE]

CallAgainKeepingWaves ==
    /\ pc \in {"idle", "done", "raised"}
    /\ \E repos \in HistoryLists, T \in ThresholdChoices, cfg \in HistoryConfigs :
          /\ repositories' = repos
          /\ thresholds' = T
          /\ config' = cfg
          /\ \E held \in {earlier} \cup (IF pc = "idle" THEN {} ELSE {JustEnded}) :
                earlier' =
                    IF held.kept /\ <<held.repositories, held.thresholds, held.config>>
                                    # <<repos, T, cfg>>
                    THEN [held EXCEPT !.others = TRUE]
                    ELSE held
    /\ pc' = "map"
    /\ migrationRepos' = << >>
    /\ mapIdx' = 1
    /\ metaCalls' = 0
    /\ orgGroups' = << >>
    /\ groupIdx' = 1
    /\ orgIdx' = 1
    /\ UNCHANGED allWaves
    /\ smallOrgRepos' = << >>
    /\ builderCalls' = 0
    /\ stats' = NoStats
    /\ UNCHANGED <<classifyVars, chunkVars, formVars, parseVars>>

\* the next invocation: new arguments, and every local declared anew
CallAgain ==
    /\ pc \in {"idle", "done", "raised"}
    /\ \E repos \in HistoryLists, T \in ThresholdChoices, cfg \in HistoryConfigs :
          /\ repositories' = repos
          /\ thresholds' = T
          /\ config' = cfg
          /\ \E held \in {earlier} \cup (IF pc = "idle" THEN {} ELSE {JustEnded}) :
                earlier' =
                    IF held.kept /\ <<held.repositories, held.thresholds, held.config>>
                                    # <<repos, T, cfg>>
                    THEN [held EXCEPT !.others = TRUE]
                    ELSE held
    /\ pc' = "map"
    /\ migrationRepos' = << >>
    /\ mapIdx' = 1
    /\ metaCalls' = 0
    /\ orgGroups' = << >>
    /\ groupIdx' = 1
    /\ orgIdx' = 1
    /\ allWaves' = << >>
    /\ smallOrgRepos' = << >>
    /\ builderCalls' = 0
    /\ stats' = NoStats
    /\ UNCHANGED <<classifyVars, chunkVars, formVars, parseVars>>

NextHistory == CallAgain \/ MapStep \/ GroupStep \/ ProcessOrg \/ MixedAndStats

SpecHistory == Init /\ [][NextHistory]_vars

----------------------------------------------------------------------------
(* One call of parseGhGithubStatsJson *)

ParseCall ==
    /\ jpc = "idle"
    /\ \E data \in JsonInputs : jsonData' = data
    /\ jpc' = "called"
    /\ UNCHANGED <<jResult, classifyVars, planVars, chunkVars, earlier, formVars>>

ParseRun ==
    /\ jpc = "called"
    /\ jResult' = parseGhGithubStatsJson(jsonData)
    /\ jpc' = IF "error" \in DOMAIN parseGhGithubStatsJson(jsonData)
              THEN "raised" ELSE "returned"
    /\ UNCHANGED <<jsonData, classifyVars, planVars, chunkVars, earlier, formVars>>

ParseEnd ==
    /\ jpc \in {"raised", "returned"}
    /\ jpc' = "idle"
    /\ jsonData' = Undefined
    /\ jResult' = NotParsed
    /\ UNCHANGED <<classifyVars, planVars, chunkVars, earlier, formVars>>

NextParse == ParseCall \/ ParseRun \/ ParseEnd

SpecParse == Init /\ [][NextParse]_vars

----------------------------------------------------------------------------
(* MigrationWaveAnalyzer.  A state update or a new prop makes React run the *)
(* component function again; an action is the event together with that      *)
(* render.  useMemo keeps a value while its dependencies are the same ones.  *)

\* what the user can leave in a threshold field (`Number(e.target.value)`)
FormValues == {500, 2000, 75000}

ThresholdNames == {"smallSizeMB", "largeSizeMB", "smallMetadata", "largeMetadata"}

RepoNamed(org, name) ==
    CHOOSE r \in RepoUniverse : r.Org_Name = org /\ r.Repo_Name = name

\* lists the parent passes as the `repositories` prop
FormRepoLists ==
    { << >>,
      <<RepoNamed("acme", "alpha"), RepoNamed("globex", "one"),
        RepoNamed("acme", "beta"), RepoNamed("acme", "gamma")>>,
      <<RepoNamed("globex", "two"), RepoNamed("acme", "gamma")>> }

\* the wavesByOrg memo: a Map from wave.org to its waves, in insertion order
wavesByOrgOf(result) ==
    IF "waves" \notin DOMAIN result THEN << >>
    ELSE LET waves == result.waves
             firsts == {i \in DOMAIN waves :
                           \A j \in 1..(i - 1) : waves[j].org # waves[i].org}
         IN  [k \in 1..Cardinality(firsts) |->
                 LET i == CHOOSE i \in firsts :
                              Cardinality({j \in firsts : j <= i}) = k
                 IN  [org |-> waves[i].org,
                      waves |-> SelectSeq(waves, LAMBDA w : w.org = waves[i].org)]]

\* hasError compared with `>` where the code has `>=`
RenderStrictError(repos, T) ==
    LET hasError == \/ T.smallSizeMB > T.largeSizeMB
                    \/ T.smallMetadata > T.largeMetadata
        recompute == \/ ~uiMounted
                     \/ repos # uiRepositories
                     \/ T # uiThresholds
                     \/ hasError # uiHasError
        outcome == generateMigrationWaves(repos, T, << >>)
        result == IF ~recompute THEN uiResult
                  ELSE IF hasError THEN NullResult
                  ELSE IF "error" \in DOMAIN outcome THEN NullResult
                  ELSE outcome
    IN  /\ uiMounted' = TRUE
        /\ uiRepositories' = repos
        /\ uiThresholds' = T
        /\ uiHasError' = hasError
        /\ uiResult' = result
        /\ uiInvokedWith' =
               IF recompute /\ ~hasError
               THEN [invoked |-> TRUE, repositories |-> repos, thresholds |-> T]
               ELSE uiInvokedWith
        /\ uiWavesByOrg' = IF uiMounted /\ result = uiResult THEN uiWavesByOrg
                           ELSE wavesByOrgOf(result)

\* the result memo with [thresholds, hasError] as its dependencies
RenderWithoutRepositoriesDep(repos, T) ==
    LET hasError == \/ T.smallSizeMB >= T.largeSizeMB
                    \/ T.smallMetadata >= T.largeMetadata
        recompute == \/ ~uiMounted
                     \/ T # uiThresholds
                     \/ hasError # uiHasError
        outcome == generateMigrationWaves(repos, T, << >>)
        result == IF ~recompute THEN uiResult
                  ELSE IF hasError THEN NullResult
                  ELSE IF "error" \in DOMAIN outcome THEN NullResult
                  ELSE outcome
    IN  /\ uiMounted' = TRUE
        /\ uiRepositories' = repos
        /\ uiThresholds' = T
        /\ uiHasError' = hasError
        /\ uiResult' = result
        /\ uiInvokedWith' =
               IF recompute /\ ~hasError
               THEN [invoked |-> TRUE, repositories |-> repos, thresholds |-> T]
               ELSE uiInvokedWith
        /\ uiWavesByOrg' = IF uiMounted /\ result = uiResult THEN uiWavesByOrg
                           ELSE wavesByOrgOf(result)

\* one run of the component function with prop `repos` and state `T`:
\*   hasError  = useMemo(..., [thresholds])
\*   result    = useMemo(hasError ? null : try planner catch null,
\*                       [repositories, thresholds, hasError])
\*   wavesByOrg = useMemo(..., [result])
Render(repos, T) ==
    LET hasError == \/ T.smallSizeMB >= T.largeSizeMB
                    \/ T.smallMetadata >= T.largeMetadata
        recompute == \/ ~uiMounted
                     \/ repos # uiRepositories
                     \/ T # uiThresholds
                     \/ hasError # uiHasError
        outcome == generateMigrationWaves(repos, T, << >>)
        result == IF ~recompute THEN uiResult
                  ELSE IF hasError THEN NullResult
                  ELSE IF "error" \in DOMAIN outcome THEN NullResult
                  ELSE outcome
    IN  /\ uiMounted' = TRUE
        /\ uiRepositories' = repos
        /\ uiThresholds' = T
        /\ uiHasError' = hasError
        /\ uiResult' = result
        /\ uiInvokedWith' =
               IF recompute /\ ~hasError
               THEN [invoked |-> TRUE, repositories |-> repos, thresholds |-> T]
               ELSE uiInvokedWith
        /\ uiWavesByOrg' = IF uiMounted /\ result = uiResult THEN uiWavesByOrg
                           ELSE wavesByOrgOf(result)

\* the component appears: useState(DEFAULT_THRESHOLDS) and the first render
Mount ==
    /\ ~uiMounted
    /\ \E repos \in FormRepoLists : Render(repos, DEFAULT_THRESHOLDS)
    /\ UNCHANGED <<classifyVars, planVars, chunkVars, earlier, parseVars>>

\* onChange of one ThresholdInput: setThresholds({...thresholds, field: value})
EditThreshold ==
    /\ uiMounted
    /\ \E field \in ThresholdNames, value \in FormValues :
          Render(uiRepositories, [uiThresholds EXCEPT ![field] = value])
    /\ UNCHANGED <<classifyVars, planVars, chunkVars, earlier, parseVars>>

\* the parent renders the component with another list
ChangeRepositories ==
    /\ uiMounted
    /\ \E repos \in FormRepoLists \ {uiRepositories} : Render(repos, uiThresholds)
    /\ UNCHANGED <<classifyVars, planVars, chunkVars, earlier, parseVars>>

\* the component goes away (the other tab is chosen); its state is dropped
Unmount ==
    /\ uiMounted
    /\ uiMounted' = FALSE
    /\ uiRepositories' = << >>
    /\ uiThresholds' = DEFAULT_THRESHOLDS
    /\ uiHasError' = FALSE
    /\ uiResult' = NullResult
    /\ uiWavesByOrg' = << >>
    /\ uiInvokedWith' = NotInvoked
    /\ UNCHANGED <<classifyVars, planVars, chunkVars, earlier, parseVars>>

NextForm == Mount \/ EditThreshold \/ ChangeRepositories \/ Unmount

SpecForm == Init /\ [][NextForm]_vars

\* what the JSX shows
validationMessageShown == uiMounted /\ uiHasError

resultsShown == uiMounted /\ uiResult # NullResult /\ ~uiHasError

----------------------------------------------------------------------------
(* Vocabulary of the properties *)

RECURSIVE FlattenWaves(_)
FlattenWaves(waves) ==
    IF waves = << >> THEN << >>
    ELSE IF Len(waves) = 1 THEN waves[1].repos
    ELSE LET half == Len(waves) \div 2
         IN  FlattenWaves(SubSeq(waves, 1, half))
             \o FlattenWaves(SubSeq(waves, half + 1, Len(waves)))

inputPairs ==
    [i \in DOMAIN repositories |->
        <<repositories[i].Org_Name, repositories[i].Repo_Name>>]

wavePairs ==
    LET flat == FlattenWaves(allWaves)
    IN  [i \in DOMAIN flat |-> <<flat[i].orgName, flat[i].repoName>>]

Occurrences(p, s) == Cardinality({i \in DOMAIN s : s[i] = p})

Range(s) == {s[i] : i \in DOMAIN s}

WaveSizesPositive(cfg) ==
    \A c \in Categories : getWaveSizeForCategory(c, cfg) >= 1

\* the pooled waves are the first ones of the returned list
pooledCount ==
    IF Len(smallOrgRepos) > 0
    THEN Len(createMixedOrgWaves(smallOrgRepos, config))
    ELSE 0

SmallCondition ==
    cSize < cThresholds.smallSizeMB /\ cMeta < cThresholds.smallMetadata

LargeCondition ==
    cSize >= cThresholds.largeSizeMB \/ cMeta >= cThresholds.largeMetadata

ClassifyOver == cpc \in {"returned", "raised"}

\* the steps of a call add up to the call
StepsMakeTheCall ==
    /\ (pc \in {"group", "orgs", "done"} /\ groupIdx > Len(migrationRepos)) =>
           orgGroups = groupByOrg(migrationRepos)
    /\ pc = "done" =>
           [waves |-> allWaves, stats |-> stats]
               = generateMigrationWaves(repositories, thresholds, config)
    /\ pc = "raised" =>
           generateMigrationWaves(repositories, thresholds, config)
               = [error |-> ConfigError]

----------------------------------------------------------------------------
(* Properties *)

\* C1: with valid thresholds and wave sizes >= 1, the (orgName, repoName)
\* pairs over all returned waves are the input's (Org_Name, Repo_Name) pairs
\* as a multiset, and no returned wave is empty.
C1_Conservation ==
    (pc = "done" /\ ValidThresholds(thresholds) /\ WaveSizesPositive(config)) =>
        /\ \A p \in Range(inputPairs) \cup Range(wavePairs) :
              Occurrences(p, wavePairs) = Occurrences(p, inputPairs)
        /\ \A k \in DOMAIN allWaves : Len(allWaves[k].repos) > 0

\* a plan of several waves, one of them holding a repository that occurs
\* twice in the input
C1_Witness ==
    /\ pc = "done"
    /\ Len(allWaves) >= 2
    /\ \E p \in Range(inputPairs) : Occurrences(p, inputPairs) = 2
    /\ \E k \in DOMAIN allWaves : Len(allWaves[k].repos) = 2

\* C2: under valid thresholds the result is 'small' exactly when size and
\* metadata are both below the small thresholds, otherwise 'large' exactly
\* when size or metadata reaches its large threshold, otherwise 'medium';
\* a size at or above the large size threshold gives 'large' whatever the
\* metadata count.
C2_ClassificationRule ==
    (ClassifyOver /\ ValidThresholds(cThresholds)) =>
        /\ (cResult = "small") <=> SmallCondition
        /\ (cResult = "large") <=> (~SmallCondition /\ LargeCondition)
        /\ (cResult = "medium") <=> (~SmallCondition /\ ~LargeCondition)
        /\ (cSize >= cThresholds.largeSizeMB) => (cResult = "large")

\* large by size alone, with a metadata count below the small threshold
C2_Witness ==
    /\ cpc = "returned"
    /\ ValidThresholds(cThresholds)
    /\ cSize >= cThresholds.largeSizeMB
    /\ cMeta < cThresholds.smallMetadata
    /\ cResult = "large"

\* C3 (as claimed): whenever generateMigrationWaves is called with thresholds
\* that violate the ordering, the call raises, whatever the repository list
\* (the empty one included), and no metadata count has been computed.
C3_RaisesBeforeAnyWork ==
    (pc \in {"done", "raised"} /\ ~ValidThresholds(thresholds)) =>
        (pc = "raised" /\ metaCalls = 0)

C5_InvalidThresholdsRaise ==
    (ClassifyOver /\ ~ValidThresholds(cThresholds)) =>
        (cpc = "raised" /\ cResult = ConfigError /\ cResult \notin Categories)

\* raised on the metadata axis alone, for inputs the small rule would accept
C5_Witness ==
    /\ cpc = "raised"
    /\ cThresholds.smallSizeMB < cThresholds.largeSizeMB
    /\ cThresholds.smallMetadata >= cThresholds.largeMetadata
    /\ SmallCondition

\* C6: under valid thresholds classifyRepositorySize returns one of the three
\* categories for every size >= 0 and metadata count >= 0, and never raises.
C6_ClassificationTotal ==
    (ClassifyOver /\ ValidThresholds(cThresholds)) =>
        (cpc = "returned" /\ cResult \in Categories)

\* adjacent size thresholds, and a repository between them
C6_Witness ==
    /\ cpc = "returned"
    /\ ValidThresholds(cThresholds)
    /\ cThresholds.smallSizeMB + 1 = cThresholds.largeSizeMB
    /\ cResult = "medium"

\* C7 (as claimed): for any valid thresholds T, size T.smallSizeMB with no
\* metadata is 'medium' and size T.largeSizeMB with no metadata is 'large'.
C7_BoundaryAsClaimed ==
    (cpc = "returned" /\ ValidThresholds(cThresholds) /\ cMeta = 0) =>
        /\ (cSize = cThresholds.smallSizeMB) => (cResult = "medium")
        /\ (cSize = cThresholds.largeSizeMB) => (cResult = "large")

\* C7 (amended): for valid thresholds T with T.largeMetadata > 0, size
\* T.smallSizeMB with no metadata is 'medium'; for any valid T, size
\* T.largeSizeMB with no metadata is 'large'.
C7_Boundary ==
    (cpc = "returned" /\ ValidThresholds(cThresholds) /\ cMeta = 0) =>
        /\ (cSize = cThresholds.smallSizeMB /\ cThresholds.largeMetadata > 0)
              => (cResult = "medium")
        /\ (cSize = cThresholds.largeSizeMB) => (cResult = "large")

\* exactly at the small size boundary, where the small rule would accept the
\* metadata count
C7_Witness ==
    /\ cpc = "returned"
    /\ ValidThresholds(cThresholds)
    /\ cThresholds.largeMetadata > 0
    /\ cThresholds.smallMetadata > 0
    /\ cSize = cThresholds.smallSizeMB
    /\ cMeta = 0
    /\ cResult = "medium"

\* C8 (as claimed): in the returned list, the waves carrying one org value
\* are numbered 1, 2, ..., k in list order.
C8_WaveNumbering ==
    (pc = "done") =>
        \A o \in {allWaves[k].org : k \in DOMAIN allWaves} :
            LET ws == SelectSeq(allWaves, LAMBDA w : w.org = o)
            IN  \A k \in DOMAIN ws : ws[k].waveNum = k

\* C9 (as claimed): no dedicated wave of a returned plan carries the org
\* value of a pooled wave of that plan.
C9_SentinelDistinct ==
    (pc = "done") =>
        \A i \in 1..pooledCount :
            \A j \in (pooledCount + 1)..Len(allWaves) :
                allWaves[i].org # allWaves[j].org

\* C10: in every returned wave all repositories have the category the wave
\* is tagged with.
C10_Homogeneous ==
    (pc = "done") =>
        \A k \in DOMAIN allWaves :
            \A i \in DOMAIN allWaves[k].repos :
                allWaves[k].repos[i].sizeCategory = allWaves[k].type

\* a plan with waves of two categories, one wave holding two repositories
C10_Witness ==
    /\ pc = "done"
    /\ \E k \in DOMAIN allWaves : Len(allWaves[k].repos) >= 2
    /\ Cardinality({allWaves[k].type : k \in DOMAIN allWaves}) >= 2

----------------------------------------------------------------------------
(* Vocabulary: the returned list cut into the blocks of the builder calls  *)

\* every builder call numbers its waves from 1: a block starts at waveNum 1
BlockStarts == {k \in DOMAIN allWaves : allWaves[k].waveNum = 1}

BlockOf(start) ==
    LET later == {k \in BlockStarts : k > start}
        stop == IF later = {} THEN Len(allWaves)
                ELSE (CHOOSE k \in later : \A j \in later : k <= j) - 1
    IN  SubSeq(allWaves, start, stop)

\* the blocks in list order
Blocks ==
    [n \in 1..Cardinality(BlockStarts) |->
        BlockOf(CHOOSE k \in BlockStarts :
                    Cardinality({j \in BlockStarts : j <= k}) = n)]

\* what the builders were handed: the pool first, then the dedicated groups
BuilderInputs ==
    LET dedicated ==
            SelectSeq(orgGroups, LAMBDA g : Len(g.repos) >= orgThresholdOf(config))
    IN  (IF Len(smallOrgRepos) > 0 THEN <<smallOrgRepos>> ELSE << >>)
        \o [k \in DOMAIN dedicated |-> dedicated[k].repos]

Ceil(n, s) == (n + s - 1) \div s

WaveLengths(waves) == [k \in DOMAIN waves |-> Len(waves[k].repos)]

\* C11: a builder handed n >= 1 repositories of one category emits
\* ceil(n/s) waves of that category, all of length s except the last, which
\* holds the remaining n - s*(ceil(n/s)-1); a category with no repository
\* emits no wave; with the defaults 200 small repositories of one
\* organization come out as waves of 75, 75 and 50.
C11_WaveSizing ==
    (pc = "done") =>
        /\ Len(Blocks) = Len(BuilderInputs)
        /\ \A b \in DOMAIN Blocks : \A c \in Categories :
              LET n == Len(SelectSeq(BuilderInputs[b],
                                     LAMBDA r : r.sizeCategory = c))
                  s == getWaveSizeForCategory(c, config)
                  lens == WaveLengths(wavesOfType(Blocks[b], c))
              IN  IF n = 0 THEN lens = << >>
                  ELSE /\ Len(lens) = Ceil(n, s)
                       /\ \A k \in 1..(Len(lens) - 1) : lens[k] = s
                       /\ lens[Len(lens)] = n - s * (Ceil(n, s) - 1)
        /\ (repositories = BulkSmall /\ config = << >>) =>
              WaveLengths(allWaves) = <<75, 75, 50>>

\* the 200 small repositories under the default configuration
C11_Witness ==
    /\ pc = "done"
    /\ repositories = BulkSmall
    /\ config = << >>
    /\ Len(allWaves) = 3

----------------------------------------------------------------------------
(* Vocabulary: organizations of the input *)

InputOrgs == {repositories[i].Org_Name : i \in DOMAIN repositories}

\* how many repositories of the input belong to organization o
OrgCount(o) ==
    Cardinality({i \in DOMAIN repositories : repositories[i].Org_Name = o})

\* the org values of the waves holding a repository of organization o
TagsOf(o) ==
    {allWaves[k].org : k \in {j \in DOMAIN allWaves :
        \E i \in DOMAIN allWaves[j].repos : allWaves[j].repos[i].orgName = o}}

\* C12 (as claimed): an organization with at least orgThreshold repositories
\* has its repositories in waves tagged with its own name; an organization
\* below the threshold has all of them in waves tagged with the pooled
\* identifier and none in a wave tagged with its own name; with the default
\* threshold two organizations of 10 are pooled and one of 60 is dedicated.
C12_OrgDedication ==
    (pc = "done") =>
        \A o \in InputOrgs :
            IF OrgCount(o) >= orgThresholdOf(config)
            THEN TagsOf(o) = {o}
            ELSE TagsOf(o) = {MIXED_SMALL_ORGS} /\ o \notin TagsOf(o)

\* a wave built from the pool holds repositories of organizations below the
\* threshold; a dedicated wave those of an organization at or above it
FromPool(w) == OrgCount(w.repos[1].orgName) < orgThresholdOf(config)

\* C13: in the returned list every pooled wave comes before every
\* dedicated-organization wave.
C13_PooledFirst ==
    (pc = "done") =>
        \A i \in DOMAIN allWaves : \A j \in DOMAIN allWaves :
            (FromPool(allWaves[i]) /\ ~FromPool(allWaves[j])) => i < j

\* pooled and dedicated waves in one plan, the dedicated organization being
\* the first of the input
C13_Witness ==
    /\ pc = "done"
    /\ Len(repositories) >= 1
    /\ ~(OrgCount(repositories[1].Org_Name) < orgThresholdOf(config))
    /\ \E i \in DOMAIN allWaves : FromPool(allWaves[i])
    /\ \E j \in DOMAIN allWaves : ~FromPool(allWaves[j])

\* the sort key of the builders: category, then size, then metadata count
KeyLeq(a, b) ==
    \/ categoryOrder(a.sizeCategory) < categoryOrder(b.sizeCategory)
    \/ /\ a.sizeCategory = b.sizeCategory
       /\ \/ a.sizeMB < b.sizeMB
          \/ a.sizeMB = b.sizeMB /\ a.metadataRecords <= b.metadataRecords

SortedByKey(repos) ==
    \A i \in 1..(Len(repos) - 1) : KeyLeq(repos[i], repos[i + 1])

WaveOrgs == {allWaves[k].org : k \in DOMAIN allWaves}

\* C14 (as claimed): for every org value of the returned list, the
\* repositories read off the waves carrying it, in wave order and in-wave
\* order, are sorted by category (small, medium, large), then size, then
\* metadata count.
C14_SortedWithinOrg ==
    (pc = "done") =>
        \A o \in WaveOrgs :
            SortedByKey(FlattenWaves(SelectSeq(allWaves, LAMBDA w : w.org = o)))

----------------------------------------------------------------------------
(* C15 *)

\* every (wave, position) of the plan
WaveSlots ==
    UNION {{<<k, i>> : i \in DOMAIN allWaves[k].repos} : k \in DOMAIN allWaves}

WavesTyped(category) == {k \in DOMAIN allWaves : allWaves[k].type = category}

avgOf(category) ==
    CASE category = "small" -> stats.avgSmallWaveSize
      [] category = "medium" -> stats.avgMediumWaveSize
      [] category = "large" -> stats.avgLargeWaveSize

\* C15: in every returned plan stats.totalRepos is the number of repositories
\* in the waves, stats.totalWaves is the number of waves, and the average of
\* a category without waves is 0; the empty input gives 0, 0 and three zeros.
C15_StatsConsistent ==
    (pc = "done") =>
        /\ stats.totalRepos = Cardinality(WaveSlots)
        /\ stats.totalWaves = Len(allWaves)
        /\ \A c \in Categories : WavesTyped(c) = {} => avgOf(c) = Zero
        /\ repositories = << >> =>
              /\ stats.totalRepos = 0
              /\ stats.totalWaves = 0
              /\ \A c \in Categories : avgOf(c) = Zero

\* a returned plan with small waves of more than one repository on average
\* and no large wave
C15_Witness ==
    /\ pc = "done"
    /\ allWaves # << >>
    /\ WavesTyped("small") # {}
    /\ WavesTyped("large") = {}
    /\ stats.avgSmallWaveSize.num > stats.avgSmallWaveSize.den

\* the empty input returns the empty plan
C15_WitnessEmpty == pc = "done" /\ repositories = << >> /\ allWaves = << >>

----------------------------------------------------------------------------
(* C16 *)

\* C16 (as claimed): every chunking loop reaches the end of its category
\* list, for every wave size the configuration accepts.  A loop that ends
\* takes at least one repository per iteration, so over a list of n
\* repositories it has run at most n times whenever it is still running.
C16_ChunkLoopEnds == (lpc = "loop") => Len(lWaves) <= Len(lRepos)

\* the same loop with a wave size of at least 1 (sanity: this one ends)
PositiveSizeLoopEnds ==
    (lpc = "loop" /\ lWaveSize >= 1) =>
        /\ Len(lWaves) <= Len(lRepos)
        /\ lI = Len(lWaves) * lWaveSize
        /\ Len(lWaves) < MaxChunkWaves

\* the loop with a wave size of 0 or less never gets nearer to the end
NonPositiveSizeLoopStays ==
    (lpc = "loop" /\ lWaveSize <= 0) => lI <= 0 /\ lI < Len(lRepos)

----------------------------------------------------------------------------
(* C17 *)

\* C17: from the call to its end no step changes the caller's repositories
\* (elements, order, field values), thresholds or config; while the groups
\* are turned into waves, the grouped arrays and the records in them stay as
\* they are (sorting works on a copy).
C17_InputsNotMutated ==
    [][ /\ (pc # "idle" /\ pc' # "idle") =>
              /\ repositories' = repositories
              /\ thresholds' = thresholds
              /\ config' = config
        /\ (pc \in {"group", "orgs"} /\ pc' # "idle") =>
              migrationRepos' = migrationRepos
        /\ (pc = "orgs" /\ pc' # "idle") => orgGroups' = orgGroups ]_vars

\* a returned plan whose read-off order is not the input order: the sort
\* moved something, and the input is still what the property compares with
C17_Witness ==
    /\ pc = "done"
    /\ Len(repositories) >= 2
    /\ Len(wavePairs) = Len(inputPairs)
    /\ wavePairs # inputPairs
    /\ \E g \in DOMAIN orgGroups :
          /\ Len(orgGroups[g].repos) >= 2
          /\ ~SortedByKey(orgGroups[g].repos)

----------------------------------------------------------------------------
(* C18 *)

SameArguments ==
    /\ earlier.kept
    /\ earlier.repositories = repositories
    /\ earlier.thresholds = thresholds
    /\ earlier.config = config

\* C18: an invocation that ends with the arguments of an earlier invocation
\* ends the same way (returns or raises) with equal waves and equal stats,
\* whatever invocations came before the earlier one or between the two.
C18_HistoryFree ==
    (pc \in {"done", "raised"} /\ SameArguments) =>
        /\ earlier.outcome = pc
        /\ allWaves = earlier.waves
        /\ stats = earlier.stats

\* a plan of several waves returned for the second time, with an invocation
\* on other arguments in between
C18_Witness ==
    /\ pc = "done"
    /\ SameArguments
    /\ earlier.others
    /\ Len(allWaves) >= 2

----------------------------------------------------------------------------
(* C19 *)

\* the value of a counter of an input record, an absent one counting as 0
Counter(r, f) == IF f \in DOMAIN r THEN r[f] ELSE 0

ElevenCounters(r) ==
    Counter(r, "PR_Review_Count") + Counter(r, "Issue_Count")
    + Counter(r, "Pull_Request_Count") + Counter(r, "PR_Review_Comment_Count")
    + Counter(r, "Commit_Comment_Count") + Counter(r, "Issue_Comment_Count")
    + Counter(r, "Issue_Event_Count") + Counter(r, "Release_Count")
    + Counter(r, "Milestone_Count") + Counter(r, "Tag_Count")
    + Counter(r, "Discussion_Count")

\* C19: the metadataRecords computed for a repository is the sum of its
\* eleven counters, an absent counter counting as 0; it is not negative, and
\* no other field of the record (branches, collaborators, projects, size)
\* adds to it.
C19_MetadataSum ==
    \A i \in DOMAIN migrationRepos :
        /\ migrationRepos[i].metadataRecords = ElevenCounters(repositories[i])
        /\ migrationRepos[i].metadataRecords >= 0

\* computed for a record with every counter and a branch count set, and for
\* a record that lacks counters
C19_Witness ==
    /\ \E i \in DOMAIN migrationRepos :
          /\ \A k \in DOMAIN MetadataFields :
                Counter(repositories[i], MetadataFields[k]) > 0
          /\ Counter(repositories[i], "Branch_Count") > 0
          /\ repositories[i].Repo_Size_MB > 0
          /\ migrationRepos[i].metadataRecords = ElevenCounters(repositories[i])
    /\ \E j \in DOMAIN migrationRepos :
          /\ "Tag_Count" \notin DOMAIN repositories[j]
          /\ migrationRepos[j].metadataRecords > 0

----------------------------------------------------------------------------
(* C20 *)

\* the value of a parameter for this call: the supplied one, else its default
Supplied(field, default) ==
    IF field \in DOMAIN config THEN config[field] ELSE default

PlanWaveSize(category) ==
    CASE category = "small" -> Supplied("waveSizeSmall", 75)
      [] category = "medium" -> Supplied("waveSizeMedium", 25)
      [] category = "large" -> Supplied("waveSizeLarge", 5)

PlanOrgThreshold == Supplied("orgThreshold", 50)

\* organization o went to the pool
Pooled(o) == \E i \in DOMAIN smallOrgRepos : smallOrgRepos[i].orgName = o

\* C20: the returned plan is cut with, per category, the wave size supplied
\* in the config or else 75, 25 and 5, each on its own: of the waves one
\* builder emits for a category all but the last hold exactly that many
\* repositories and the last holds at most that many; and an organization is
\* pooled exactly when it has fewer repositories than the supplied
\* orgThreshold or else 50.
C20_Overridable ==
    (pc = "done") =>
        /\ \A b \in DOMAIN Blocks : \A c \in Categories :
              LET lens == WaveLengths(wavesOfType(Blocks[b], c))
              IN  \A k \in DOMAIN lens :
                      /\ lens[k] >= 1
                      /\ lens[k] <= PlanWaveSize(c)
                      /\ k < Len(lens) => lens[k] = PlanWaveSize(c)
        /\ \A o \in InputOrgs : Pooled(o) <=> OrgCount(o) < PlanOrgThreshold

\* waveSizeSmall and orgThreshold supplied, the other two sizes not: small
\* waves of the supplied size, a medium wave larger than that, a large wave
\* of 5 followed by another, and an organization of fewer than 50 dedicated
C20_Witness ==
    /\ pc = "done"
    /\ DOMAIN config = {"waveSizeSmall", "orgThreshold"}
    /\ \E b \in DOMAIN Blocks :
          /\ Len(wavesOfType(Blocks[b], "small")) >= 2
          /\ Len(wavesOfType(Blocks[b], "small")[1].repos) = config.waveSizeSmall
          /\ \E k \in DOMAIN Blocks[b] :
                /\ Blocks[b][k].type = "medium"
                /\ Len(Blocks[b][k].repos) > config.waveSizeSmall
          /\ Len(wavesOfType(Blocks[b], "large")) >= 2
          /\ Len(wavesOfType(Blocks[b], "large")[1].repos) = 5
    /\ \E o \in InputOrgs : OrgCount(o) < 50 /\ ~Pooled(o)

----------------------------------------------------------------------------
(* C21 *)

\* the call of the scenario: default thresholds, no config, three
\* repositories of acme with sizes 10, 600, 2500 and counts 100, 1000, 5000
AcmeScenario ==
    /\ thresholds = DEFAULT_THRESHOLDS
    /\ config = << >>
    /\ Len(repositories) = 3
    /\ \A i \in 1..3 : repositories[i].Org_Name = "acme"
    /\ [i \in 1..3 |-> repositories[i].Repo_Size_MB] = <<10, 600, 2500>>
    /\ [i \in 1..3 |-> ElevenCounters(repositories[i])] = <<100, 1000, 5000>>

\* C21: under the default thresholds (500, 2000, 75000, 200000) the three
\* repositories of acme classify as small, medium, large, acme is pooled,
\* and the plan has three waves, one per category with one repository each,
\* with stats.totalRepos = 3 and stats.totalWaves = 3.
C21_AcmeScenario ==
    (pc = "done" /\ AcmeScenario) =>
        /\ DEFAULT_THRESHOLDS = [smallSizeMB |-> 500, largeSizeMB |-> 2000,
                                 smallMetadata |-> 75000, largeMetadata |-> 200000]
        /\ [i \in 1..3 |-> migrationRepos[i].sizeCategory]
               = <<"small", "medium", "large">>
        /\ [i \in 1..3 |-> migrationRepos[i].metadataRecords] = <<100, 1000, 5000>>
        /\ Len(smallOrgRepos) = 3
        /\ builderCalls = 1
        /\ Len(allWaves) = 3
        /\ {allWaves[k].type : k \in 1..3} = Categories
        /\ \A k \in 1..3 :
              /\ Len(allWaves[k].repos) = 1
              /\ allWaves[k].repos[1].sizeCategory = allWaves[k].type
              /\ allWaves[k].org = MIXED_SMALL_ORGS
        /\ stats.totalRepos = 3
        /\ stats.totalWaves = 3

C21_Witness == pc = "done" /\ AcmeScenario /\ Len(allWaves) = 3

----------------------------------------------------------------------------
(* C22: in the threshold form, whatever edits were made, thresholds with    *)
(* smallSizeMB >= largeSizeMB or smallMetadata >= largeMetadata show the    *)
(* validation message and no plan, and the planner was not invoked with     *)
(* them (so none of its errors escapes rendering); valid thresholds show no *)
(* validation message and show a plan.                                      *)
InvalidThresholds(T) ==
    T.smallSizeMB >= T.largeSizeMB \/ T.smallMetadata >= T.largeMetadata

C22_FormValidation ==
    uiMounted =>
        /\ uiInvokedWith # NotInvoked => ~InvalidThresholds(uiInvokedWith.thresholds)
        /\ InvalidThresholds(uiThresholds) =>
               validationMessageShown /\ ~resultsShown
        /\ ~InvalidThresholds(uiThresholds) =>
               /\ ~validationMessageShown
               /\ resultsShown
               /\ "waves" \in DOMAIN uiResult
               /\ uiInvokedWith # NotInvoked
               /\ uiInvokedWith.thresholds = uiThresholds

C22_Witness ==
    /\ uiMounted
    /\ uiThresholds.smallMetadata = uiThresholds.largeMetadata
    /\ uiThresholds.smallSizeMB < uiThresholds.largeSizeMB
    /\ validationMessageShown
    /\ ~resultsShown
    /\ uiInvokedWith # NotInvoked
    /\ uiRepositories # << >>

----------------------------------------------------------------------------
(* C23: after any threshold edits and changes of the repository list, the   *)
(* plan on display is the one generateMigrationWaves yields for the current *)
(* repositories and the current thresholds, never one computed from earlier *)
(* ones, and the derived view is computed from that same plan.              *)
C23_CurrentPlanShown ==
    uiMounted =>
        /\ resultsShown =>
               /\ uiResult = generateMigrationWaves(uiRepositories, uiThresholds, << >>)
               /\ uiInvokedWith = [invoked |-> TRUE,
                                   repositories |-> uiRepositories,
                                   thresholds |-> uiThresholds]
        /\ uiWavesByOrg = wavesByOrgOf(uiResult)

C23_Witness ==
    /\ resultsShown
    /\ uiThresholds # DEFAULT_THRESHOLDS
    /\ Len(uiRepositories) = 4
    /\ Len(uiWavesByOrg) = 1
    /\ Len(uiWavesByOrg[1].waves) >= 2
    /\ uiResult = generateMigrationWaves(uiRepositories, uiThresholds, << >>)
    /\ uiResult # generateMigrationWaves(uiRepositories, DEFAULT_THRESHOLDS, << >>)

----------------------------------------------------------------------------
(* C24: the pooled builder and the per-organization builder called with the *)
(* tag MIXED_SMALL_ORGS return equal wave lists, for every list of          *)
(* classified repositories the planner holds (the whole list, the pool, and *)
(* every organization's group) and every configuration.                     *)
BuilderLists ==
    {migrationRepos, smallOrgRepos} \cup {orgGroups[k].repos : k \in DOMAIN orgGroups}

C24_SameBuilder ==
    pc = "done" =>
        \A list \in BuilderLists :
            createMixedOrgWaves(list, config)
                = createOrgWaves(MIXED_SMALL_ORGS, list, config)

C24_Witness ==
    /\ pc = "done"
    /\ Len(createMixedOrgWaves(migrationRepos, config)) >= 2
    /\ Cardinality({migrationRepos[i].sizeCategory : i \in DOMAIN migrationRepos}) >= 2
    /\ config # << >>
    /\ createMixedOrgWaves(migrationRepos, config)
           = createOrgWaves(MIXED_SMALL_ORGS, migrationRepos, config)

----------------------------------------------------------------------------
\* where organization o first occurs in the input
FirstOccurrence(o) ==
    CHOOSE i \in DOMAIN repositories :
        /\ repositories[i].Org_Name = o
        /\ \A j \in 1..(i - 1) : repositories[j].Org_Name # o

\* the waves after the pooled ones
DedicatedIndices == (pooledCount + 1)..Len(allWaves)

\* dedicated waves follow the first-occurrence order of their organizations
DedicatedInInputOrder ==
    \A i \in DedicatedIndices : \A j \in DedicatedIndices :
        i < j => FirstOccurrence(allWaves[i].repos[1].orgName)
                     <= FirstOccurrence(allWaves[j].repos[1].orgName)

\* the waves carrying identifier o are next to each other
Contiguous(o) ==
    \A i \in DOMAIN allWaves : \A j \in DOMAIN allWaves :
        (i < j /\ allWaves[i].org = o /\ allWaves[j].org = o) =>
            \A k \in i..j : allWaves[k].org = o

\* C25 (as claimed): the blocks of the dedicated organizations come in the
\* order in which the organizations first occur in the input (so an input
\* permuted without changing that order gives the same block order), and
\* the waves of one organization identifier form one contiguous block.
C25_BlockOrder ==
    (pc = "done") =>
        /\ DedicatedInInputOrder
        /\ \A o \in {allWaves[k].org : k \in DOMAIN allWaves} : Contiguous(o)

----------------------------------------------------------------------------
\* the repositories of `list` that tie with r in the builders' comparison
TieClass(list, r) ==
    SelectSeq(list, LAMBDA x : /\ x.sizeCategory = r.sizeCategory
                               /\ x.sizeMB = r.sizeMB
                               /\ x.metadataRecords = r.metadataRecords)

\* the pooled repositories: organizations in first-occurrence order,
\* repositories in input order within each organization
PoolOrder ==
    LET P == {i \in DOMAIN migrationRepos :
                 OrgCount(migrationRepos[i].orgName) < orgThresholdOf(config)}
        before(j, i) ==
            \/ FirstOccurrence(migrationRepos[j].orgName)
                   < FirstOccurrence(migrationRepos[i].orgName)
            \/ migrationRepos[j].orgName = migrationRepos[i].orgName /\ j <= i
        rank == [i \in P |-> Cardinality({j \in P : before(j, i)})]
    IN  [p \in 1..Cardinality(P) |-> migrationRepos[CHOOSE i \in P : rank[i] = p]]

\* the repositories of each dedicated organization in input order, the
\* organizations in first-occurrence order
DedicatedOrder ==
    LET D == {o \in InputOrgs : OrgCount(o) >= orgThresholdOf(config)}
        nth(k) == CHOOSE o \in D :
                      Cardinality({o2 \in D : FirstOccurrence(o2) <= FirstOccurrence(o)}) = k
    IN  [k \in 1..Cardinality(D) |->
            SelectSeq(migrationRepos, LAMBDA r : r.orgName = nth(k))]

InputOrder ==
    (IF PoolOrder # << >> THEN <<PoolOrder>> ELSE << >>) \o DedicatedOrder

\* C26: repositories handed to one wave builder that have the same category,
\* the same sizeMB and the same metadataRecords keep, in the builder's waves,
\* the relative order they had in its input; the pooled builder's input has
\* the organizations in first-occurrence order and each organization's
\* repositories in input order.
C26_StableTieBreak ==
    (pc = "done") =>
        /\ Len(Blocks) = Len(InputOrder)
        /\ \A b \in DOMAIN Blocks :
              LET out == FlattenWaves(Blocks[b])
              IN  \A i \in DOMAIN InputOrder[b] :
                      TieClass(out, InputOrder[b][i])
                          = TieClass(InputOrder[b], InputOrder[b][i])

C26_Witness ==
    /\ pc = "done"
    /\ repositories = Ties
    /\ orgThresholdOf(config) = 3
    /\ Len(Blocks) = 2
    /\ [i \in 1..3 |-> FlattenWaves(Blocks[1])[i].repoName] = <<"r1", "r5", "r3">>
    /\ [i \in 1..3 |-> FlattenWaves(Blocks[2])[i].repoName] = <<"r2", "r4", "r6">>

----------------------------------------------------------------------------
\* the source property each counter of the record is read from; three
\* counters have none
CounterSource ==
    [Issue_Count |-> "issues", Pull_Request_Count |-> "pullRequests",
     Commit_Comment_Count |-> "commitComments", Milestone_Count |-> "milestones",
     Release_Count |-> "releases", Tag_Count |-> "tags",
     Discussion_Count |-> "discussions", Issue_Event_Count |-> "issueEvents"]

\* the repository objects of the argument
JsonItems ==
    IF jsonData.t = "array" THEN jsonData.items
    ELSE IF jsonData.t = "object" /\ Get(jsonData.props, "repos").t = "array"
         THEN Get(jsonData.props, "repos").items
         ELSE << >>

HasRepositoryArray ==
    \/ jsonData.t = "array"
    \/ jsonData.t = "object" /\ Get(jsonData.props, "repos").t = "array"

\* C27 (as claimed): in what parseGhGithubStatsJson returns, for every
\* repository object of its argument, the eleven metadata counters and
\* Repo_Size_MB are numbers, 0 when the source property is absent, and
\* Is_Fork, Is_Archived, Is_Empty and Migration_Issue are true or false;
\* an argument that is neither an array nor an object with a `repos` array
\* raises an error and returns no records.
C27_Normalized ==
    /\ jpc = "returned" =>
          /\ HasRepositoryArray
          /\ Len(jResult.repos) = Len(JsonItems)
          /\ \A i \in DOMAIN jResult.repos :
                LET out == jResult.repos[i]
                    in == JsonItems[i].props
                IN  /\ \A k \in DOMAIN MetadataFields :
                          LET f == MetadataFields[k]
                          IN  /\ out[f].t = "number"
                              /\ (f \in DOMAIN CounterSource
                                    /\ CounterSource[f] \notin DOMAIN in)
                                     => out[f] = Num(0)
                              /\ f \notin DOMAIN CounterSource => out[f] = Num(0)
                    /\ out.Repo_Size_MB.t = "number"
                    /\ ({"sizeMB", "diskUsage"} \cap DOMAIN in = {})
                           => out.Repo_Size_MB = Num(0)
                    /\ \A b \in {"Is_Fork", "Is_Archived", "Is_Empty", "Migration_Issue"} :
                          out[b] \in {Bool(TRUE), Bool(FALSE)}
    /\ (jpc \in {"returned", "raised"} /\ ~HasRepositoryArray) =>
          jpc = "raised" /\ "repos" \notin DOMAIN jResult

----------------------------------------------------------------------------
\* the two conditions evaluated in the other order
LargeFirst ==
    IF LargeCondition THEN "large"
    ELSE IF SmallCondition THEN "small"
    ELSE "medium"

\* C28: under valid thresholds the 'small' condition and the 'large'
\* condition of classifyRepositorySize never hold together, whatever sizeMB
\* and metadataRecords are, and the category returned is the one either
\* order of evaluation gives.
C28_Exclusive ==
    /\ ValidThresholds(cThresholds) => ~(SmallCondition /\ LargeCondition)
    /\ (cpc = "returned") =>
          /\ ValidThresholds(cThresholds)
          /\ cResult = LargeFirst
          /\ cResult = "small" <=> SmallCondition
          /\ cResult = "large" <=> LargeCondition

\* a repository below the small size threshold whose metadata reaches the
\* large one
C28_Witness ==
    /\ cpc = "returned"
    /\ ValidThresholds(cThresholds)
    /\ cSize < cThresholds.smallSizeMB
    /\ cMeta >= cThresholds.largeMetadata
    /\ cResult = "large"

\* under thresholds that violate the ordering both conditions hold at once
C28_BothUnderInvalid ==
    /\ cpc = "raised"
    /\ ~ValidThresholds(cThresholds)
    /\ SmallCondition
    /\ LargeCondition

----------------------------------------------------------------------------
\* the per-category fields of the returned stats
reposOf(category) ==
    CASE category = "small" -> stats.smallRepos
      [] category = "medium" -> stats.mediumRepos
      [] category = "large" -> stats.largeRepos

wavesCountOf(category) ==
    CASE category = "small" -> stats.smallWaves
      [] category = "medium" -> stats.mediumWaves
      [] category = "large" -> stats.largeWaves

----------------------------------------------------------------------------
\* C30 (as claimed): every repository in a wave tagged with a dedicated
\* organization has that organization as its orgName; every repository in a
\* wave tagged with the pooled identifier has the orgName it came with, which
\* is not the pooled identifier and is that of an organization with fewer
\* than orgThreshold repositories in the input; and every repository of a
\* wave has the category its own size and metadata give.
C30_Membership ==
    (pc = "done") =>
        \A k \in DOMAIN allWaves : \A i \in DOMAIN allWaves[k].repos :
            LET w == allWaves[k]
                r == w.repos[i]
            IN  /\ <<r.orgName, r.repoName>> \in Range(inputPairs)
                /\ r.sizeCategory
                       = classifyRepositorySize(r.sizeMB, r.metadataRecords, thresholds)
                /\ IF w.org = MIXED_SMALL_ORGS
                   THEN /\ r.orgName # MIXED_SMALL_ORGS
                        /\ OrgCount(r.orgName) < orgThresholdOf(config)
                   ELSE /\ r.orgName = w.org
                        /\ OrgCount(w.org) >= orgThresholdOf(config)

====
